---- MODULE Spec2Model ----
(***************************************************************************)
(* The per-league scheduling engine of azuro-twitter-scheduler:            *)
(* AzuroScheduler (scheduler.ts) with the parts of AzuroProvider           *)
(* (azuro.ts) and TwitterClient (twitter.ts) its cycles run through.       *)
(*                                                                         *)
(* Time is the JavaScript clock, Date.now(), in milliseconds, counted from *)
(* a midnight UTC; the host reads it in its own time zone, env.TZ.  A      *)
(* timer callback and the synchronous                                      *)
(* part of an async function up to its next await run to completion, so    *)
(* each is one action; every await is a point where other actions          *)
(* interleave.                                                             *)
(***************************************************************************)
EXTENDS Integers, Sequences, FiniteSets, TLC

VARIABLES
    now,              \* Date.now(), ms
    env,              \* what the process is started with: the four flags of ENV; TZ, the
                      \* time zone in which Date computes local time; the settings
                      \* requireEnv reads and TWITTER_PASSWORD; and timeZone, the
                      \* identifier written in LEAGUE_FETCH_TIMES
    lifecycle,        \* "unconstructed": index.ts has not yet run new AzuroScheduler();
                      \* "crashed": the constructor threw and the process ended;
                      \* "idle"; "running": start() was called last; "stopped": stop() was
                      \* called on the running engine; "stopped again": stop() was called
                      \* on an engine that was not running
    startCalls,       \* number of start() calls so far
    leagueSchedules,  \* AzuroScheduler.leagueSchedules: league -> handle of a timer, or NoHandle
    timers,           \* the armed timers of the Node event loop
    fetches,          \* cycles awaiting azuroProvider.getGames
    batches,          \* number of non-empty batches the EventSource has returned
    degraded,         \* whether a getGames call has failed (it logs, and answers no tweets)
    tweetData,        \* the TweetData objects built so far
    posts,            \* the postLeagueTweet invocations, running and finished
    tweetSeq,         \* number of posts the platform has accepted
    call              \* a call of safeAPICall or formatTweetText followed on its own,
                      \* or NoCall

vars == <<now, env, lifecycle, startCalls, leagueSchedules, timers, fetches,
          batches, degraded, tweetData, posts, tweetSeq, call>>

----------------------------------------------------------------------------
(* Bounds of the model *)

InitialHour == 9
FineHours == 1
HorizonHours == 26
MaxStarts == 1
MaxBatches == 1
MaxGames == 2
MaxOffsetHalfHours == 4
NumLeagues == 2
ClockFirstHour == 8
ClockLastHour == 10
LivePeriods == 2
CatchUpBatches == 2
MaxRestarts == 2
WindowBatches == 2
MaxRetries == 3
MaxFormatGames == 7

----------------------------------------------------------------------------
(* Program constants *)

SecMs == 1000
HourMs == 60 * 60 * 1000
MinuteMs == 60 * 1000
HalfHourMs == 30 * 60 * 1000
DayMs == 24 * 60 * 60 * 1000
LeadMs == 60 * 60 * 1000
WindowSec == 18 * 60 * 60
THREAD_DELAY_MS == 2000

leagues ==
    [ NHL |-> [leagueId |-> "32_United States_NHL"],
      NBA |-> [leagueId |-> "31_United States_NBA"],
      MLB |-> [leagueId |-> "28_United States_MLB"],
      EPL |-> [leagueId |-> "33_England_Premier League"] ]

(* Every league's timeZone is 'Europe/Madrid' in the repository; env.timeZone *)
(* is that identifier as the configuration file in use spells it.            *)
LEAGUE_FETCH_TIMES ==
    [ EPL |-> [fetchHour |-> 10, fetchMinute |-> 0, timeZone |-> env.timeZone],
      NBA |-> [fetchHour |-> 15, fetchMinute |-> 0, timeZone |-> env.timeZone],
      NHL |-> [fetchHour |-> 11, fetchMinute |-> 0, timeZone |-> env.timeZone],
      MLB |-> [fetchHour |-> 12, fetchMinute |-> 0, timeZone |-> env.timeZone] ]

(* Object.entries(LEAGUE_FETCH_TIMES) and Object.keys(leagues), in order. *)
fetchTimeKeys == <<"EPL", "NBA", "NHL", "MLB">>

leagueKeys == <<"NHL", "NBA", "MLB", "EPL">>

(* The leagues of the model: the first NumLeagues of the configuration. *)
Leagues == {fetchTimeKeys[i] : i \in 1..(IF NumLeagues < 4 THEN NumLeagues ELSE 4)}

NoHandle == [kind |-> "none", tag |-> 0]

NoCall == [op |-> "none"]

----------------------------------------------------------------------------
(* Timers.  A timer is [kind, league, tag, due]; (kind, league, tag) is its *)
(* handle.  kind "first" is the setTimeout of setupLeagueScheduler and      *)
(* "daily" the setInterval its callback arms (tag: the start() call that    *)
(* armed it); "publish" is the setTimeout of scheduleLeagueTweet (tag: the  *)
(* TweetData it will post); "thread" is the inter-post delay of             *)
(* postLeagueTweet (tag: the invocation).                                   *)

Handle(t) == [kind |-> t.kind, tag |-> t.tag]

Timer(kind, league, tag, due) ==
    [kind |-> kind, league |-> league, tag |-> tag, due |-> due]

DailyKinds == {"first", "daily"}

LiveTimers(l) == {t \in timers : t.league = l /\ t.kind \in DailyKinds \cup {"publish"}}

DailyTimers(l) == {t \in timers : t.league = l /\ t.kind \in DailyKinds}

PublishTimers(l) == {t \in timers : t.league = l /\ t.kind = "publish"}

Registered(l) ==
    {t \in timers : t.league = l /\ Handle(t) = leagueSchedules[l]}

----------------------------------------------------------------------------
(* Local time (Date).  A zone's wall clock is UTC plus the zone's offset at *)
(* that instant.  Europe/Madrid is at UTC+1 and moves to UTC+2 at 01:00 UTC *)
(* of the model's second day (a 23-hour local day, as on the last Sunday of *)
(* March); UTC has no shift.                                                *)

Zones == {"UTC", "Europe/Madrid"}

DstStart == DayMs + HourMs

utcOffset(zone, t) ==
    IF zone = "Europe/Madrid"
    THEN (IF t >= DstStart THEN 2 * HourMs ELSE HourMs)
    ELSE 0

toWall(zone, t) == t + utcOffset(zone, t)

fromWall(zone, wall) ==
    LET guess == wall - utcOffset(zone, wall)
    IN  wall - utcOffset(zone, guess)

----------------------------------------------------------------------------
(* The daily fetch instant (setupLeagueScheduler).  new Date(now) with      *)
(* setHours(h, m, 0, 0) is h:m of the current day in the host's zone, and   *)
(* setDate(getDate() + 1) the same wall time of the host's next day; the    *)
(* config's timeZone is not read.                                           *)

setHours(t, hour, minute) ==
    LET wall == toWall(env.TZ, t)
    IN  fromWall(env.TZ, (wall - (wall % DayMs)) + hour * HourMs + minute * MinuteMs)

setDate(t, days) == fromWall(env.TZ, toWall(env.TZ, t) + days * DayMs)

targetTime(t, config) ==
    LET today == setHours(t, config.fetchHour, config.fetchMinute)
    IN  IF t > today THEN setDate(today, 1) ELSE today

timeUntilNextFetch(t, config) == targetTime(t, config) - t

----------------------------------------------------------------------------
(* The EventSource (AzuroProvider.getGames over getLeagueEvents).           *)

round(ms) == (ms + (SecMs \div 2)) \div SecMs

RECURSIVE insertGame(_, _)
insertGame(g, sorted) ==
    IF sorted = <<>> THEN <<g>>
    ELSE IF g < Head(sorted) THEN <<g>> \o sorted
    ELSE <<Head(sorted)>> \o insertGame(g, Tail(sorted))

(* Mutant: the events are left in the order the subgraph answered them. *)
sortByStartsAt_unsorted(events) == events

RECURSIVE sortByStartsAt(_)
sortByStartsAt(events) ==
    IF events = <<>> THEN <<>>
    ELSE insertGame(Head(events), sortByStartsAt(Tail(events)))

(* Mutant: the query bounds startsAt from below only. *)
queryWindow_open(startTime, startsAt) == startsAt > startTime

(* The where clause of the games query: startsAt_gt startTime, startsAt_lt  *)
(* endTime, 18 hours on.                                                    *)
queryWindow(startTime, startsAt) ==
    startsAt > startTime /\ startsAt < startTime + WindowSec

(* What the subgraph can answer to a query made at startTime (seconds):     *)
(* games of the league that start inside the query's window, in any order.  *)
StartsAtChoices(startTime) ==
    {s \in {startTime + k * (HalfHourMs \div SecMs) : k \in 1..MaxOffsetHalfHours} :
        queryWindow(startTime, s)}

RECURSIVE SeqsUpTo(_, _)
SeqsUpTo(S, n) ==
    IF n = 0 THEN {<<>>}
    ELSE LET shorter == SeqsUpTo(S, n - 1)
         IN  shorter \cup {Append(q, x) : q \in {r \in shorter : Len(r) = n - 1}, x \in S}

EventBatches(startTime) == SeqsUpTo(StartsAtChoices(startTime), MaxGames)

FetchOutcomes == {"ok", "http_failed", "bad_body"}

(* getLeagueEvents: safeAPICall answers the parsed body, or, every attempt  *)
(* having failed, the default {data: {games: []}}; a body without           *)
(* data.games makes response.data.games throw.                              *)
getLeagueEvents(outcome, events) ==
    CASE outcome = "ok" -> [threw |-> FALSE, games |-> events]
      [] outcome = "http_failed" -> [threw |-> FALSE, games |-> <<>>]
      [] OTHER -> [threw |-> TRUE, games |-> <<>>]

leagueOfId(leagueId) == {l \in DOMAIN leagues : leagues[l].leagueId = leagueId}

(* Mutant: a failed query is not told from an answered one, and a TweetData *)
(* without games is built for it.                                           *)
getGames_uncaught(leagueId, outcome, events, image, dataId) ==
    IF leagueOfId(leagueId) = {} THEN <<>>
    ELSE IF outcome = "ok" /\ Len(events) = 0 THEN <<>>
    ELSE << [ id |-> dataId,
              leagueId |-> leagueId,
              games |-> sortByStartsAt(getLeagueEvents(outcome, events).games),
              attachments |-> IF image THEN 1 ELSE 0 ] >>

(* Mutant: a league that answered no events is not filtered out. *)
getGames_unfiltered(leagueId, outcome, events, image, dataId) ==
    LET found == leagueOfId(leagueId)
        got == getLeagueEvents(outcome, events)
    IN  IF found = {} THEN <<>>
        ELSE IF got.threw THEN <<>>
        ELSE << [ id |-> dataId,
                  leagueId |-> leagueId,
                  games |-> sortByStartsAt(got.games),
                  attachments |-> IF image THEN 1 ELSE 0 ] >>

(* Mutant: a leagueId that is no league's is queried as it stands. *)
getGames_anyLeague(leagueId, outcome, events, image, dataId) ==
    LET got == getLeagueEvents(outcome, events)
    IN  IF got.threw THEN <<>>
        ELSE IF Len(got.games) = 0 THEN <<>>
        ELSE << [ id |-> dataId,
                  leagueId |-> leagueId,
                  games |-> sortByStartsAt(got.games),
                  attachments |-> IF image THEN 1 ELSE 0 ] >>

(* Mutant: the leagueId is not looked at and every configured league is    *)
(* queried, as for a call without argument.                                 *)
getGames_allLeagues(leagueId, outcome, events, image, dataId) ==
    LET got == getLeagueEvents(outcome, events)
    IN  IF got.threw THEN <<>>
        ELSE IF Len(got.games) = 0 THEN <<>>
        ELSE [ i \in 1..Len(leagueKeys) |->
                 [ id |-> dataId,
                   leagueId |-> leagues[leagueKeys[i]].leagueId,
                   games |-> sortByStartsAt(got.games),
                   attachments |-> IF image THEN 1 ELSE 0 ] ]

(* getGames(leagueId): the list `tweets` it resolves to.  fetchId names the *)
(* TweetData object built by this call.                                     *)
getGames(leagueId, outcome, events, image, dataId) ==
    LET found == leagueOfId(leagueId)
        got == getLeagueEvents(outcome, events)
    IN  IF found = {} THEN <<>>
        ELSE IF got.threw THEN <<>>
        ELSE IF Len(got.games) = 0 THEN <<>>
        ELSE << [ id |-> dataId,
                  leagueId |-> leagueId,
                  games |-> sortByStartsAt(got.games),
                  attachments |-> IF image THEN 1 ELSE 0 ] >>

find(tweets, leagueId) == {i \in 1..Len(tweets) : tweets[i].leagueId = leagueId}

----------------------------------------------------------------------------
(* scheduleLeagueTweet: the timers it arms at instant t for a TweetData.    *)

postTime(firstGame) == firstGame * SecMs - LeadMs

scheduleLeagueTweet(league, data, t) ==
    IF Len(data.games) = 0 THEN {}
    ELSE LET timeUntilPost == postTime(data.games[1]) - t
         IN  IF timeUntilPost > 0
             THEN {Timer("publish", league, data.id, t + timeUntilPost)}
             ELSE {}

----------------------------------------------------------------------------
(* The Publisher (TwitterClient).  A call resolves to a result              *)
(* [threw, wrapped, shape, restId]: wrapped is whether the value has a      *)
(* json() method giving the body (a fetch Response, or the dry-run          *)
(* stand-in) rather than being the body itself; shape is the key under      *)
(* `data` that holds tweet_results.result, "none" if there is none.         *)

NoId == <<"undefined", 0>>

Threw == [threw |-> TRUE, wrapped |-> FALSE, shape |-> "none", restId |-> NoId]

(* What a live call can come to: a result with its rest_id, a result        *)
(* without one, a body without a result, a throw (of the login or of the    *)
(* send).                                                                   *)
SendOutcomes == {"ok", "no_id", "malformed", "throws"}

(* What sendTweet and sendNoteTweet call on the way: nothing in dry run;    *)
(* otherwise getLoggedInScraper (which authenticates) and then, unless the  *)
(* call is to throw, the scraper's send operation.  A throwing call has     *)
(* authenticated or tried to.                                               *)
scraperCalls(isDryRun, outcome) ==
    IF isDryRun THEN {}
    ELSE IF outcome = "throws" THEN {"getLoggedInScraper"}
    ELSE {"getLoggedInScraper", "send"}

(* Mutant: the isDryRun test is missing. *)
sendTweet_live(isDryRun, outcome, t, seq) ==
    CASE outcome = "ok" ->
            [threw |-> FALSE, wrapped |-> TRUE, shape |-> "create_tweet",
             restId |-> <<"tweet", seq>>]
      [] outcome = "no_id" ->
            [threw |-> FALSE, wrapped |-> TRUE, shape |-> "create_tweet", restId |-> NoId]
      [] outcome = "malformed" ->
            [threw |-> FALSE, wrapped |-> TRUE, shape |-> "none", restId |-> NoId]
      [] OTHER -> Threw

sendTweet(isDryRun, outcome, t, seq) ==
    IF isDryRun
    THEN [threw |-> FALSE, wrapped |-> TRUE, shape |-> "create_tweet",
          restId |-> <<"dry-run-", t>>]
    ELSE CASE outcome = "ok" ->
                [threw |-> FALSE, wrapped |-> TRUE, shape |-> "create_tweet",
                 restId |-> <<"tweet", seq>>]
           [] outcome = "no_id" ->
                [threw |-> FALSE, wrapped |-> TRUE, shape |-> "create_tweet", restId |-> NoId]
           [] outcome = "malformed" ->
                [threw |-> FALSE, wrapped |-> TRUE, shape |-> "none", restId |-> NoId]
           [] OTHER -> Threw

sendNoteTweet(isDryRun, outcome, t, seq) ==
    IF isDryRun
    THEN [threw |-> FALSE, wrapped |-> TRUE, shape |-> "notetweet_create",
          restId |-> <<"dry-run-notetweet-", t>>]
    ELSE CASE outcome = "ok" ->
                [threw |-> FALSE, wrapped |-> FALSE, shape |-> "notetweet_create",
                 restId |-> <<"tweet", seq>>]
           [] outcome = "no_id" ->
                [threw |-> FALSE, wrapped |-> FALSE, shape |-> "notetweet_create",
                 restId |-> NoId]
           [] outcome = "malformed" ->
                [threw |-> FALSE, wrapped |-> FALSE, shape |-> "none", restId |-> NoId]
           [] OTHER -> Threw

(* Whether the platform accepted a post: a live call that did not throw     *)
(* and answered a result.                                                   *)
accepted(isDryRun, result) == ~isDryRun /\ ~result.threw /\ result.shape # "none"

----------------------------------------------------------------------------
(* postLeagueTweet.  One invocation is a record                             *)
(*   [id, data, league, via, pc, mainCalls, replyCalls, firstTweetId,       *)
(*    replyTo, failedAt]                                                    *)
(* pc is the await it is suspended at: "media" (prepareMediaData), "main"   *)
(* (the main post and the reading of its result), "delay" (the inter-post   *)
(* delay), "reply" (the reply and the reading of its result), or "done".    *)
(* failedAt is the await whose throw its catch block caught, or "none".     *)

TweetOf(id) == CHOOSE d \in tweetData : d.id = id

(* The synchronous start of postLeagueTweet(data). *)
postLeagueTweet(id, data, league, via) ==
    [ id |-> id, data |-> data.id, league |-> league, via |-> via,
      pc |-> IF data.attachments > 0 THEN "media" ELSE "main",
      mainCalls |-> IF data.attachments > 0 THEN 0 ELSE 1,
      replyCalls |-> 0, firstTweetId |-> NoId, replyTo |-> NoId, failedAt |-> "none" ]

(* Mutant: prepareMediaData is awaited outside the try block, so its throw  *)
(* rejects the promise of postLeagueTweet.                                  *)
afterMedia_uncaught(p, ok) ==
    IF ok THEN [p EXCEPT !.pc = "main", !.mainCalls = @ + 1]
    ELSE [p EXCEPT !.pc = "rejected", !.failedAt = "media"]

(* After await prepareMediaData. *)
afterMedia(p, ok) ==
    IF ok THEN [p EXCEPT !.pc = "main", !.mainCalls = @ + 1]
    ELSE [p EXCEPT !.pc = "done", !.failedAt = "media"]

(* Reading the main post's result: the NoteTweet branch reads               *)
(* result.data.notetweet_create.tweet_results.result.rest_id off the value  *)
(* itself, the standard branch off (await response.json()).                 *)
mainReadThrows(noteTweet, result) ==
    IF noteTweet
    THEN result.wrapped \/ result.shape # "notetweet_create"
    ELSE ~result.wrapped \/ result.shape # "create_tweet"

(* Mutant: a failure of the main post is logged where it happens and the    *)
(* function goes on to the reply.                                           *)
afterMain_swallow(p, noteTweet, result) ==
    IF result.threw \/ mainReadThrows(noteTweet, result)
    THEN [p EXCEPT !.pc = "delay", !.failedAt = "main"]
    ELSE [p EXCEPT !.pc = "delay", !.firstTweetId = result.restId]

afterMain(p, noteTweet, result) ==
    IF result.threw \/ mainReadThrows(noteTweet, result)
    THEN [p EXCEPT !.pc = "done", !.failedAt = "main"]
    ELSE [p EXCEPT !.pc = "delay", !.firstTweetId = result.restId]

(* After the delay: the reply is sent to firstTweetId. *)
afterDelay(p) ==
    [p EXCEPT !.pc = "reply", !.replyCalls = @ + 1, !.replyTo = p.firstTweetId]

(* Mutant: a failed reply sends the thread again from the main post. *)
afterReply_retry(p, result) ==
    IF result.threw \/ ~result.wrapped
    THEN [p EXCEPT !.pc = "main", !.mainCalls = @ + 1]
    ELSE [p EXCEPT !.pc = "done"]

(* After the reply: a throw of the call or of json() is caught; a body      *)
(* without a result is only logged.                                         *)
afterReply(p, result) ==
    IF result.threw \/ ~result.wrapped
    THEN [p EXCEPT !.pc = "done", !.failedAt = "reply"]
    ELSE [p EXCEPT !.pc = "done"]

----------------------------------------------------------------------------
(* The engine (AzuroScheduler). *)

(* process.env[name]: unset, set to the empty string, or set to a value. *)
EnvValues == {"undefined", "", "set"}

(* The time-zone identifiers a configuration file may carry: the            *)
(* repository's, and a misspelt one that names no zone.                     *)
TimeZoneIds == {"Europe/Madrid", "Europe/Madird"}

EnvChoices ==
    [ RUN_ON_START : BOOLEAN, POST_ON_START : BOOLEAN,
      SUPPORTS_NOTETWEET : BOOLEAN, TWITTER_DRY_RUN : BOOLEAN, TZ : Zones,
      TWITTER_COOKIES_AUTH_TOKEN : EnvValues, TWITTER_COOKIES_CT0 : EnvValues,
      TWITTER_COOKIES_GUEST_ID : EnvValues, TWITTER_USERNAME : EnvValues,
      TWITTER_PASSWORD : {"undefined", "set"}, timeZone : TimeZoneIds ]

(* The settings the constructor reads, in the order it reads them. *)
requiredSettings ==
    <<"TWITTER_COOKIES_AUTH_TOKEN", "TWITTER_COOKIES_CT0",
      "TWITTER_COOKIES_GUEST_ID", "TWITTER_USERNAME">>

(* An environment with every required setting present, no password, and    *)
(* the repository's LEAGUE_FETCH_TIMES.                                     *)
Deployed(e) ==
    /\ \A i \in 1..Len(requiredSettings) : e[requiredSettings[i]] = "set"
    /\ e.TWITTER_PASSWORD = "undefined"
    /\ e.timeZone = "Europe/Madrid"

(* The engine as constructed, on a host that keeps UTC. *)
Init ==
    /\ now = InitialHour * HourMs
    /\ env \in {e \in EnvChoices : e.TZ = "UTC" /\ Deployed(e)}
    /\ lifecycle = "idle"
    /\ startCalls = 0
    /\ leagueSchedules = [l \in Leagues |-> NoHandle]
    /\ timers = {}
    /\ fetches = {}
    /\ batches = 0
    /\ degraded = FALSE
    /\ tweetData = {}
    /\ posts = {}
    /\ tweetSeq = 0
    /\ call = NoCall

(* setupLeagueScheduler(league, config) called at t by the gen-th start():  *)
(* the timeout it arms, which it also puts in the registry.                 *)
setupLeagueScheduler(league, config, t, gen) ==
    Timer("first", league, gen, t + timeUntilNextFetch(t, config))

(* A call of azuroProvider.getGames made at t, awaited by a cycle: of the    *)
(* immediate pass of the gen-th start() (origin "startup"), or of a daily   *)
(* timer that start() armed (origin "daily").                               *)
Fetch(league, origin, gen, t) ==
    [league |-> league, origin |-> origin, gen |-> gen, startTime |-> round(t)]

(* The immediate pass of start(): one getGames call per league. *)
startupFetches(e, t, gen) ==
    IF e.RUN_ON_START \/ e.POST_ON_START
    THEN {Fetch(leagueKeys[i], "startup", gen, t) :
             i \in {j \in 1..Len(leagueKeys) : leagueKeys[j] \in Leagues}}
    ELSE {}

(* Mutant: the timeouts are armed but not put in the registry. *)
start_unregistered ==
    /\ timers' = timers \cup
                    {setupLeagueScheduler(l, LEAGUE_FETCH_TIMES[l], now, startCalls + 1) :
                        l \in Leagues}
    /\ fetches' = fetches \cup startupFetches(env, now, startCalls + 1)
    /\ startCalls' = startCalls + 1
    /\ lifecycle' = "running"
    /\ UNCHANGED <<call, now, env, leagueSchedules, batches, degraded, tweetData, posts, tweetSeq>>

start ==
    /\ LET armed == {setupLeagueScheduler(l, LEAGUE_FETCH_TIMES[l], now, startCalls + 1) :
                        l \in Leagues}
           begun == startupFetches(env, now, startCalls + 1)
       IN  /\ timers' = timers \cup armed
           /\ leagueSchedules' =
                  [l \in Leagues |->
                      Handle(setupLeagueScheduler(l, LEAGUE_FETCH_TIMES[l], now, startCalls + 1))]
           /\ fetches' = fetches \cup begun
    /\ startCalls' = startCalls + 1
    /\ lifecycle' = "running"
    /\ UNCHANGED <<call, now, env, batches, degraded, tweetData, posts, tweetSeq>>

(* start() as the hosting process calls it: on an engine that is not running. *)
Start ==
    /\ startCalls < MaxStarts
    /\ lifecycle # "running"
    /\ start

(* Mutant: only a timeout that has not fired is cleared, not an interval. *)
cancelled_timeoutsOnly(ts, registry) ==
    {t \in ts : Handle(t) = registry[t.league] /\ t.kind = "first"}

(* stop(): clearTimeout on every value of the registry, then clear it. *)
cancelled(ts, registry) ==
    {t \in ts : Handle(t) = registry[t.league] /\ t.kind \in DailyKinds}

(* Mutant: the timers are cancelled but the registry is not cleared. *)
Stop_keepsRegistry ==
    /\ timers' = timers \ cancelled(timers, leagueSchedules)
    /\ lifecycle' = IF lifecycle = "running" THEN "stopped" ELSE "stopped again"
    /\ UNCHANGED <<call, now, env, startCalls, leagueSchedules, fetches, batches, degraded,
                   tweetData, posts, tweetSeq>>

Stop ==
    /\ timers' = timers \ cancelled(timers, leagueSchedules)
    /\ leagueSchedules' = [l \in Leagues |-> NoHandle]
    /\ lifecycle' = IF lifecycle = "running" THEN "stopped" ELSE "stopped again"
    /\ UNCHANGED <<call, now, env, startCalls, fetches, batches, degraded, tweetData, posts, tweetSeq>>

(* The clock: it never passes an armed timer that has not fired, and an     *)
(* awaited call (getGames, prepareMediaData, a send) resolves within the    *)
(* instant it was made in. The clock moves to the next timer's instant, or, *)
(* early on, by an hour.                                                    *)
Due(t) == t.due <= now

Awaiting == fetches # {} \/ \E p \in posts : p.pc \in {"media", "main", "reply"}

AdvanceTo(instant) ==
    /\ instant > now
    /\ \A t \in timers : instant <= t.due
    /\ ~Awaiting
    /\ now' = instant
    /\ UNCHANGED <<call, env, lifecycle, startCalls, leagueSchedules, timers, fetches,
                   batches, degraded, tweetData, posts, tweetSeq>>

Advance ==
    \/ /\ now + HourMs <= (InitialHour + FineHours) * HourMs
       /\ AdvanceTo(now + HourMs)
    \/ \E t \in timers :
          /\ t.due <= (InitialHour + HorizonHours) * HourMs
          /\ AdvanceTo(t.due)

(* Mutant: the recurring timer is armed but the registry keeps the handle   *)
(* of the timeout that has fired.                                           *)
FirstFetchFires_unregistered(t) ==
    /\ t.kind = "first" /\ t.due <= now
    /\ timers' = (timers \ {t}) \cup {Timer("daily", t.league, t.tag, now + DayMs)}
    /\ fetches' = fetches \cup {Fetch(t.league, "daily", t.tag, now)}
    /\ UNCHANGED <<call, now, env, lifecycle, startCalls, leagueSchedules, batches, degraded,
                   tweetData, posts, tweetSeq>>

(* Mutant: the first fetch begins and no recurring timer is armed. *)
FirstFetchFires_noInterval(t) ==
    /\ t.kind = "first" /\ t.due <= now
    /\ timers' = timers \ {t}
    /\ fetches' = fetches \cup {Fetch(t.league, "daily", t.tag, now)}
    /\ UNCHANGED <<call, now, env, lifecycle, startCalls, leagueSchedules, batches, degraded,
                   tweetData, posts, tweetSeq>>

(* The callback of setupLeagueScheduler's timeout: the first fetch begins   *)
(* and the recurring timer replaces the registry entry.                     *)
FirstFetchFires(t) ==
    /\ t.kind = "first" /\ Due(t)
    /\ LET interval == Timer("daily", t.league, t.tag, now + DayMs)
       IN  /\ timers' = (timers \ {t}) \cup {interval}
           /\ leagueSchedules' = [leagueSchedules EXCEPT ![t.league] = Handle(interval)]
    /\ fetches' = fetches \cup {Fetch(t.league, "daily", t.tag, now)}
    /\ UNCHANGED <<call, now, env, lifecycle, startCalls, batches, degraded, tweetData, posts, tweetSeq>>

(* Mutant: each firing of the interval arms another timer beside it. *)
DailyFetchFires_accumulates(t) ==
    /\ t.kind = "daily" /\ t.due <= now
    /\ timers' = timers \cup {Timer("daily", t.league, t.tag, now + DayMs)}
    /\ fetches' = fetches \cup {Fetch(t.league, "daily", t.tag, now)}
    /\ UNCHANGED <<call, now, env, lifecycle, startCalls, leagueSchedules, batches,
                   degraded, tweetData, posts, tweetSeq>>

(* The callback of the setInterval: the next fetch begins, the interval     *)
(* stays armed for 24 hours later.                                          *)
(* Mutant: the interval re-arms but its callback begins no fetch. *)
DailyFetchFires_noFetch(t) ==
    /\ t.kind = "daily" /\ Due(t)
    /\ timers' = (timers \ {t}) \cup {Timer("daily", t.league, t.tag, now + DayMs)}
    /\ UNCHANGED <<call, now, env, lifecycle, startCalls, leagueSchedules, fetches, batches,
                   degraded, tweetData, posts, tweetSeq>>

DailyFetchFires(t) ==
    /\ t.kind = "daily" /\ Due(t)
    /\ timers' = (timers \ {t}) \cup {Timer("daily", t.league, t.tag, now + DayMs)}
    /\ fetches' = fetches \cup {Fetch(t.league, "daily", t.tag, now)}
    /\ UNCHANGED <<call, now, env, lifecycle, startCalls, leagueSchedules, batches,
                   degraded, tweetData, posts, tweetSeq>>

(* Mutant: nothing is scheduled for a league that has a publish timer pending. *)
fetchAndScheduleLeague_dedup(league, tweets, t) ==
    IF Len(tweets) = 0 \/ PublishTimers(league) # {} THEN {}
    ELSE LET hit == find(tweets, leagues[league].leagueId)
         IN  IF hit = {} THEN {}
             ELSE scheduleLeagueTweet(league, tweets[CHOOSE i \in hit : \A j \in hit : i <= j], t)

(* fetchAndScheduleLeague after await getGames: the timers it arms. *)
fetchAndScheduleLeague(league, tweets, t) ==
    IF Len(tweets) = 0 THEN {}
    ELSE LET hit == find(tweets, leagues[league].leagueId)
         IN  IF hit = {} THEN {}
             ELSE scheduleLeagueTweet(league, tweets[CHOOSE i \in hit : \A j \in hit : i <= j], t)

(* Mutant: the immediate pass also arms the league's first-fetch timeout anew. *)
startupSchedules_rearms(league, tweets, t, e) ==
    {setupLeagueScheduler(league, LEAGUE_FETCH_TIMES[league], t, 0)} \cup
    (IF Len(tweets) = 0 THEN {}
     ELSE LET hit == find(tweets, leagues[league].leagueId)
          IN  IF hit = {} \/ ~e.RUN_ON_START THEN {}
              ELSE scheduleLeagueTweet(league, tweets[CHOOSE i \in hit : \A j \in hit : i <= j], t))

(* Mutant: the immediate pass schedules whether or not RUN_ON_START is set. *)
startupSchedules_always(league, tweets, t, e) ==
    IF Len(tweets) = 0 THEN {}
    ELSE LET hit == find(tweets, leagues[league].leagueId)
         IN  IF hit = {} THEN {}
             ELSE scheduleLeagueTweet(league, tweets[CHOOSE i \in hit : \A j \in hit : i <= j], t)

(* The mapper of start()'s immediate pass after await getGames: the timers  *)
(* it arms and the postLeagueTweet invocations it begins.                   *)
startupSchedules(league, tweets, t, e) ==
    IF Len(tweets) = 0 THEN {}
    ELSE LET hit == find(tweets, leagues[league].leagueId)
         IN  IF hit = {} \/ ~e.RUN_ON_START THEN {}
             ELSE scheduleLeagueTweet(league, tweets[CHOOSE i \in hit : \A j \in hit : i <= j], t)

(* Mutant: the immediate pass posts only when it does not schedule. *)
startupPosts_exclusive(league, tweets, e, id) ==
    IF Len(tweets) = 0 THEN {}
    ELSE LET hit == find(tweets, leagues[league].leagueId)
         IN  IF hit = {} \/ ~e.POST_ON_START \/ e.RUN_ON_START THEN {}
             ELSE {postLeagueTweet(id, tweets[CHOOSE i \in hit : \A j \in hit : i <= j],
                                   league, "startup")}

startupPosts(league, tweets, e, id) ==
    IF Len(tweets) = 0 THEN {}
    ELSE LET hit == find(tweets, leagues[league].leagueId)
         IN  IF hit = {} \/ ~e.POST_ON_START THEN {}
             ELSE {postLeagueTweet(id, tweets[CHOOSE i \in hit : \A j \in hit : i <= j],
                                   league, "startup")}

(* Mutant: a failed getGames call rejects, and the rejection ends every     *)
(* cycle that is awaiting a fetch.                                          *)
FetchCompletes_abortsAll(f, outcome, events, image) ==
    /\ f \in fetches
    /\ (outcome = "ok" /\ events # <<>>) => batches < MaxBatches
    /\ outcome # "ok" => (events = <<>> /\ ~image)
    /\ events = <<>> => ~image
    /\ LET tweets == getGames(leagues[f.league].leagueId, outcome, events, image, batches + 1)
       IN  /\ tweetData' = tweetData \cup {tweets[i] : i \in 1..Len(tweets)}
           /\ batches' = IF outcome = "ok" /\ events # <<>> THEN batches + 1 ELSE batches
           /\ degraded' = (degraded \/ outcome # "ok")
           /\ IF f.origin = "daily"
              THEN /\ timers' = timers \cup fetchAndScheduleLeague(f.league, tweets, now)
                   /\ posts' = posts
              ELSE /\ timers' = timers \cup startupSchedules(f.league, tweets, now, env)
                   /\ posts' = posts \cup
                                 startupPosts(f.league, tweets, env, Cardinality(posts) + 1)
    /\ fetches' = IF outcome = "ok" THEN fetches \ {f} ELSE {}
    /\ UNCHANGED <<call, now, env, lifecycle, startCalls, leagueSchedules, tweetSeq>>

(* getGames resolves and the awaiting cycle continues. *)
getGamesResolves(f, outcome, events, image) ==
    /\ f \in fetches
    /\ outcome # "ok" => (events = <<>> /\ ~image)
    /\ events = <<>> => ~image
    /\ LET tweets == getGames(leagues[f.league].leagueId, outcome, events, image, batches + 1)
       IN  /\ tweetData' = tweetData \cup {tweets[i] : i \in 1..Len(tweets)}
           /\ batches' = IF outcome = "ok" /\ events # <<>> THEN batches + 1 ELSE batches
           /\ degraded' = (degraded \/ outcome # "ok")
           /\ IF f.origin = "daily"
              THEN /\ timers' = timers \cup fetchAndScheduleLeague(f.league, tweets, now)
                   /\ posts' = posts
              ELSE /\ timers' = timers \cup startupSchedules(f.league, tweets, now, env)
                   /\ posts' = posts \cup
                                 startupPosts(f.league, tweets, env, Cardinality(posts) + 1)
    /\ fetches' = fetches \ {f}
    /\ UNCHANGED <<call, now, env, lifecycle, startCalls, leagueSchedules, tweetSeq>>

(* The same, the EventSource answering at most MaxBatches non-empty batches. *)
FetchCompletes(f, outcome, events, image) ==
    /\ (outcome = "ok" /\ events # <<>>) => batches < MaxBatches
    /\ getGamesResolves(f, outcome, events, image)

(* Mutant: the publish timeout fires and its callback invokes nothing. *)
PublishFires_noPost(t) ==
    /\ t.kind = "publish" /\ Due(t)
    /\ timers' = timers \ {t}
    /\ UNCHANGED <<call, now, env, lifecycle, startCalls, leagueSchedules, fetches,
                   batches, degraded, tweetData, posts, tweetSeq>>

(* The callback of scheduleLeagueTweet's timeout. *)
PublishFires(t) ==
    /\ t.kind = "publish" /\ Due(t)
    /\ timers' = timers \ {t}
    /\ posts' = posts \cup
                  {postLeagueTweet(Cardinality(posts) + 1, TweetOf(t.tag), t.league, "timer")}
    /\ UNCHANGED <<call, now, env, lifecycle, startCalls, leagueSchedules, fetches,
                   batches, degraded, tweetData, tweetSeq>>

MediaCompletes(p, ok) ==
    /\ p.pc = "media"
    /\ posts' = (posts \ {p}) \cup {afterMedia(p, ok)}
    /\ UNCHANGED <<call, now, env, lifecycle, startCalls, leagueSchedules, timers, fetches,
                   batches, degraded, tweetData, tweetSeq>>

mainSend(e, outcome, t, seq) ==
    IF e.SUPPORTS_NOTETWEET
    THEN sendNoteTweet(e.TWITTER_DRY_RUN, outcome, t, seq)
    ELSE sendTweet(e.TWITTER_DRY_RUN, outcome, t, seq)

MainPostCompletes(p, outcome) ==
    /\ p.pc = "main"
    /\ LET result == mainSend(env, outcome, now, tweetSeq + 1)
           q == afterMain(p, env.SUPPORTS_NOTETWEET, result)
       IN  /\ posts' = (posts \ {p}) \cup {q}
           /\ tweetSeq' = IF accepted(env.TWITTER_DRY_RUN, result) THEN tweetSeq + 1 ELSE tweetSeq
           /\ timers' = IF q.pc = "delay"
                        THEN timers \cup {Timer("thread", p.league, p.id, now + THREAD_DELAY_MS)}
                        ELSE timers
    /\ UNCHANGED <<call, now, env, lifecycle, startCalls, leagueSchedules, fetches,
                   batches, degraded, tweetData>>

ThreadDelayFires(t) ==
    /\ t.kind = "thread" /\ Due(t)
    /\ timers' = timers \ {t}
    /\ \E p \in posts :
          /\ p.id = t.tag /\ p.pc = "delay"
          /\ posts' = (posts \ {p}) \cup {afterDelay(p)}
    /\ UNCHANGED <<call, now, env, lifecycle, startCalls, leagueSchedules, fetches,
                   batches, degraded, tweetData, tweetSeq>>

ReplyCompletes(p, outcome) ==
    /\ p.pc = "reply"
    /\ LET result == sendTweet(env.TWITTER_DRY_RUN, outcome, now, tweetSeq + 1)
       IN  /\ posts' = (posts \ {p}) \cup {afterReply(p, result)}
           /\ tweetSeq' = IF accepted(env.TWITTER_DRY_RUN, result) THEN tweetSeq + 1 ELSE tweetSeq
    /\ UNCHANGED <<call, now, env, lifecycle, startCalls, leagueSchedules, timers, fetches,
                   batches, degraded, tweetData>>

Next ==
    \/ Start
    \/ Stop
    \/ Advance
    \/ \E t \in timers : FirstFetchFires(t)
    \/ \E t \in timers : DailyFetchFires(t)
    \/ \E f \in fetches, outcome \in FetchOutcomes \ {"ok"} :
          FetchCompletes(f, outcome, <<>>, FALSE)
    \/ \E f \in fetches, image \in BOOLEAN :
          \E events \in EventBatches(f.startTime) : FetchCompletes(f, "ok", events, image)
    \/ \E t \in timers : PublishFires(t)
    \/ \E p \in posts, ok \in BOOLEAN : MediaCompletes(p, ok)
    \/ \E p \in posts, outcome \in SendOutcomes : MainPostCompletes(p, outcome)
    \/ \E t \in timers : ThreadDelayFires(t)
    \/ \E p \in posts, outcome \in SendOutcomes : ReplyCompletes(p, outcome)

Spec == Init /\ [][Next]_vars

(* The engine on a host of either zone, constructed at an hour between      *)
(* ClockFirstHour and ClockLastHour UTC, with the immediate-start flags     *)
(* off and a live Publisher.                                                *)
ClockInit ==
    /\ now \in {h * HourMs : h \in ClockFirstHour..ClockLastHour}
    /\ env \in {e \in EnvChoices :
                    /\ ~e.RUN_ON_START /\ ~e.POST_ON_START
                    /\ ~e.SUPPORTS_NOTETWEET /\ ~e.TWITTER_DRY_RUN
                    /\ Deployed(e)}
    /\ lifecycle = "idle"
    /\ startCalls = 0
    /\ leagueSchedules = [l \in Leagues |-> NoHandle]
    /\ timers = {}
    /\ fetches = {}
    /\ batches = 0
    /\ degraded = FALSE
    /\ tweetData = {}
    /\ posts = {}
    /\ tweetSeq = 0
    /\ call = NoCall

ClockSpec == ClockInit /\ [][Next]_vars

----------------------------------------------------------------------------
(* The hosting process (index.ts): it constructs the engine, then starts    *)
(* it; and the TwitterClient the constructor builds.                        *)

(* Mutant: only an unset variable is refused, an empty one is let through. *)
requireEnv_allowsEmpty(value) == [threw |-> value = "undefined", value |-> value]

(* requireEnv: `if (!value) throw`, else the value. *)
requireEnv(value) == [threw |-> value \in {"undefined", ""}, value |-> value]

(* new AzuroScheduler(): it reads the four settings before anything else. *)
constructorThrows(e) ==
    \E i \in 1..Len(requiredSettings) : requireEnv(e[requiredSettings[i]]).threw

(* The options the constructor hands to new TwitterClient: the cookies, the *)
(* username and isDryRun. It passes no password and no email.               *)
twitterClient(e) ==
    [ username |-> requireEnv(e.TWITTER_USERNAME).value,
      password |-> "undefined",
      isDryRun |-> e.TWITTER_DRY_RUN ]

(* What scraper.isLoggedIn() answers after setCookies, and after login. *)
AuthAnswers == {"logged_in", "not_logged_in", "throws"}

(* getLoggedInScraper: the cookies first; login(username, password, email)  *)
(* only when that left no session and the client holds both a username and  *)
(* a password; it throws when no session came of either.                    *)
getLoggedInScraper(client, cookieSession, loginSession) ==
    LET byCookies == cookieSession = "logged_in"
        tryLogin == /\ ~byCookies
                    /\ client.username \notin {"undefined", ""}
                    /\ client.password \notin {"undefined", ""}
        loggedIn == byCookies \/ (tryLogin /\ loginSession = "logged_in")
    IN  [ attempts |-> IF tryLogin THEN <<"cookies", "login">> ELSE <<"cookies">>,
          threw |-> ~loggedIn ]

(* How a send of this client ends: a dry run asks for no session; a live    *)
(* send throws when getLoggedInScraper throws, else as the platform answers.*)
sendVia(client, cookieSession, loginSession, answer) ==
    IF client.isDryRun THEN answer
    ELSE IF getLoggedInScraper(client, cookieSession, loginSession).threw THEN "throws"
    ELSE answer

Constructed == lifecycle \notin {"unconstructed", "crashed"}

(* index.ts: new AzuroScheduler() at the top level of the module; when it   *)
(* throws, the process ends before scheduler.start() and before the signal  *)
(* handlers are installed.                                                  *)
Construct ==
    /\ lifecycle = "unconstructed"
    /\ lifecycle' = IF constructorThrows(env) THEN "crashed" ELSE "idle"
    /\ UNCHANGED <<call, now, env, startCalls, leagueSchedules, timers, fetches,
                   batches, degraded, tweetData, posts, tweetSeq>>

(* The process before index.ts runs, under any settings, with either       *)
(* spelling of the time zone, with or without a password; the flags off.    *)
BootInit ==
    /\ now = InitialHour * HourMs
    /\ env \in {e \in EnvChoices :
                    /\ ~e.RUN_ON_START /\ ~e.POST_ON_START
                    /\ ~e.SUPPORTS_NOTETWEET /\ ~e.TWITTER_DRY_RUN
                    /\ e.TZ = "UTC"}
    /\ lifecycle = "unconstructed"
    /\ startCalls = 0
    /\ leagueSchedules = [l \in Leagues |-> NoHandle]
    /\ timers = {}
    /\ fetches = {}
    /\ batches = 0
    /\ degraded = FALSE
    /\ tweetData = {}
    /\ posts = {}
    /\ tweetSeq = 0
    /\ call = NoCall

BootNext ==
    \/ Construct
    \/ Constructed /\ Start
    \/ Constructed /\ Stop
    \/ Constructed /\ Advance
    \/ \E t \in timers : FirstFetchFires(t)
    \/ \E t \in timers : DailyFetchFires(t)
    \/ \E f \in fetches, outcome \in FetchOutcomes \ {"ok"} :
          FetchCompletes(f, outcome, <<>>, FALSE)
    \/ \E f \in fetches, image \in BOOLEAN :
          \E events \in EventBatches(f.startTime) : FetchCompletes(f, "ok", events, image)
    \/ \E t \in timers : PublishFires(t)
    \/ \E p \in posts, ok \in BOOLEAN : MediaCompletes(p, ok)
    \/ \E p \in posts, cookieSession \in AuthAnswers, loginSession \in AuthAnswers,
          answer \in SendOutcomes :
          MainPostCompletes(p, sendVia(twitterClient(env), cookieSession, loginSession, answer))
    \/ \E t \in timers : ThreadDelayFires(t)
    \/ \E p \in posts, cookieSession \in AuthAnswers, loginSession \in AuthAnswers,
          answer \in SendOutcomes :
          ReplyCompletes(p, sendVia(twitterClient(env), cookieSession, loginSession, answer))

BootSpec == BootInit /\ [][BootNext]_vars

----------------------------------------------------------------------------
(* The engine under the scheduling of the Node event loop: time passes, a   *)
(* timer that is due has its callback run, and an awaited call (getGames,   *)
(* prepareMediaData, a send) settles. Nothing obliges the hosting process   *)
(* to call start() or stop().                                               *)

LiveInit == Init /\ ~env.RUN_ON_START /\ ~env.POST_ON_START

Progress ==
    \/ Advance
    \/ \E t \in timers : FirstFetchFires(t)
    \/ \E t \in timers : DailyFetchFires(t)
    \/ \E f \in fetches, outcome \in FetchOutcomes \ {"ok"} :
          FetchCompletes(f, outcome, <<>>, FALSE)
    \/ \E f \in fetches, image \in BOOLEAN :
          \E events \in EventBatches(f.startTime) : FetchCompletes(f, "ok", events, image)
    \/ \E t \in timers : PublishFires(t)
    \/ \E p \in posts, ok \in BOOLEAN : MediaCompletes(p, ok)
    \/ \E p \in posts, outcome \in SendOutcomes : MainPostCompletes(p, outcome)
    \/ \E t \in timers : ThreadDelayFires(t)
    \/ \E p \in posts, outcome \in SendOutcomes : ReplyCompletes(p, outcome)

LiveSpec == LiveInit /\ [][Next]_vars /\ WF_vars(Progress)

----------------------------------------------------------------------------
(* The engine started with RUN_ON_START alone and never stopped, the        *)
(* EventSource answering up to CatchUpBatches non-empty batches, the        *)
(* leagues without an image, a main post accepted or thrown, a reply        *)
(* accepted.                                                                *)

CatchUpInit ==
    Init /\ env.RUN_ON_START /\ ~env.POST_ON_START
         /\ ~env.SUPPORTS_NOTETWEET /\ ~env.TWITTER_DRY_RUN

CatchUpNext ==
    \/ Start
    \/ Advance
    \/ \E t \in timers : FirstFetchFires(t)
    \/ \E t \in timers : DailyFetchFires(t)
    \/ \E f \in fetches, outcome \in FetchOutcomes \ {"ok"} :
          getGamesResolves(f, outcome, <<>>, FALSE)
    \/ \E f \in fetches :
          \E events \in EventBatches(f.startTime) :
              /\ events # <<>> => batches < CatchUpBatches
              /\ getGamesResolves(f, "ok", events, FALSE)
    \/ \E t \in timers : PublishFires(t)
    \/ \E p \in posts, outcome \in {"ok", "throws"} : MainPostCompletes(p, outcome)
    \/ \E t \in timers : ThreadDelayFires(t)
    \/ \E p \in posts : ReplyCompletes(p, "ok")

CatchUpSpec == CatchUpInit /\ [][CatchUpNext]_vars

----------------------------------------------------------------------------
(* The engine under a host that calls start() and stop() in any order, also *)
(* start() on an engine that is running; the immediate-start flags off.     *)

RestartInit ==
    Init /\ ~env.RUN_ON_START /\ ~env.POST_ON_START
         /\ ~env.SUPPORTS_NOTETWEET /\ ~env.TWITTER_DRY_RUN

Restart ==
    /\ startCalls < MaxRestarts
    /\ start

RestartNext ==
    \/ Restart
    \/ Stop
    \/ Advance
    \/ \E t \in timers : FirstFetchFires(t)
    \/ \E t \in timers : DailyFetchFires(t)
    \/ \E f \in fetches, outcome \in FetchOutcomes \ {"ok"} :
          FetchCompletes(f, outcome, <<>>, FALSE)
    \/ \E f \in fetches, image \in BOOLEAN :
          \E events \in EventBatches(f.startTime) : FetchCompletes(f, "ok", events, image)
    \/ \E t \in timers : PublishFires(t)
    \/ \E p \in posts, ok \in BOOLEAN : MediaCompletes(p, ok)
    \/ \E p \in posts, outcome \in SendOutcomes : MainPostCompletes(p, outcome)
    \/ \E t \in timers : ThreadDelayFires(t)
    \/ \E p \in posts, outcome \in SendOutcomes : ReplyCompletes(p, outcome)

RestartSpec == RestartInit /\ [][RestartNext]_vars

----------------------------------------------------------------------------
(* The engine as index.ts runs it, start() called once, with the flags off, *)
(* the subgraph holding games near and far: two hours after the query, a    *)
(* second short of the end of its window, and a day and two hours after it. *)

FarChoices(startTime) ==
    {s \in { startTime + 2 * (HourMs \div SecMs),
             startTime + WindowSec - 1,
             startTime + (DayMs \div SecMs) + 2 * (HourMs \div SecMs) } :
        queryWindow(startTime, s)}

FarBatches(startTime) == SeqsUpTo(FarChoices(startTime), MaxGames)

WindowInit ==
    Init /\ ~env.RUN_ON_START /\ ~env.POST_ON_START
         /\ ~env.SUPPORTS_NOTETWEET /\ ~env.TWITTER_DRY_RUN

WindowNext ==
    \/ startCalls = 0 /\ Start
    \/ Stop
    \/ Advance
    \/ \E t \in timers : FirstFetchFires(t)
    \/ \E t \in timers : DailyFetchFires(t)
    \/ \E f \in fetches, outcome \in FetchOutcomes \ {"ok"} :
          getGamesResolves(f, outcome, <<>>, FALSE)
    \/ \E f \in fetches :
          \E events \in FarBatches(f.startTime) :
              /\ events # <<>> => batches < WindowBatches
              /\ getGamesResolves(f, "ok", events, FALSE)
    \/ \E t \in timers : PublishFires(t)
    \/ \E p \in posts, outcome \in {"ok", "throws"} : MainPostCompletes(p, outcome)
    \/ \E t \in timers : ThreadDelayFires(t)
    \/ \E p \in posts : ReplyCompletes(p, "ok")

WindowSpec == WindowInit /\ [][WindowNext]_vars

----------------------------------------------------------------------------
(* safeAPICall(name, method, url, body, headers, maxRetries, retryDelay,    *)
(* defaultValue, throwOnError).  One call is a record                       *)
(*   [op, maxRetries, retryDelay, throwOnError, retries, attempts, waited,  *)
(*    pc, lastError, result]                                                *)
(* pc is the await it is suspended at: "fetch" (fetch and response.json()), *)
(* "delay" (the setTimeout of retryDelay), or how it ended: "returned",     *)
(* "threw".  attempts counts the fetch calls made, waited the milliseconds  *)
(* of delay completed.                                                      *)

NoError == [attempt |-> 0, kind |-> "none"]

(* How one attempt ends: the parsed body, fetch rejecting, a status that is *)
(* not OK, or response.json() rejecting.                                    *)
AttemptOutcomes == {"ok", "network", "status", "json"}

(* The head of the while loop: the next attempt begins, or the loop is left *)
(* and the function ends without a return statement.                        *)
whileRetries(c) ==
    IF c.retries <= c.maxRetries
    THEN [c EXCEPT !.pc = "fetch", !.attempts = @ + 1]
    ELSE [c EXCEPT !.pc = "returned", !.result = "undefined"]

safeAPICall(maxRetries, retryDelay, throwOnError) ==
    whileRetries([ op |-> "safeAPICall", maxRetries |-> maxRetries,
                   retryDelay |-> retryDelay, throwOnError |-> throwOnError,
                   retries |-> 0, attempts |-> 0, waited |-> 0, pc |-> "called",
                   lastError |-> NoError, result |-> "none" ])

(* Mutant: the budget is compared with >=, one attempt short. *)
afterAttempt_oneShort(c, outcome) ==
    IF outcome = "ok" THEN [c EXCEPT !.pc = "returned", !.result = "response"]
    ELSE LET failed == [c EXCEPT !.retries = @ + 1,
                                 !.lastError = [attempt |-> c.attempts, kind |-> outcome]]
         IN  IF failed.retries >= failed.maxRetries
             THEN IF failed.throwOnError THEN [failed EXCEPT !.pc = "threw"]
                  ELSE [failed EXCEPT !.pc = "returned", !.result = "default"]
             ELSE [failed EXCEPT !.pc = "delay"]

(* The try block and the catch block after one attempt. *)
afterAttempt(c, outcome) ==
    IF outcome = "ok" THEN [c EXCEPT !.pc = "returned", !.result = "response"]
    ELSE LET failed == [c EXCEPT !.retries = @ + 1,
                                 !.lastError = [attempt |-> c.attempts, kind |-> outcome]]
         IN  IF failed.retries > failed.maxRetries
             THEN IF failed.throwOnError THEN [failed EXCEPT !.pc = "threw"]
                  ELSE [failed EXCEPT !.pc = "returned", !.result = "default"]
             ELSE [failed EXCEPT !.pc = "delay"]

(* After the delay the loop goes round. *)
afterRetryDelay(c) == whileRetries([c EXCEPT !.waited = @ + c.retryDelay])

----------------------------------------------------------------------------
(* The text of a TweetData, and formatTweetText.  A text is a sequence of   *)
(* tokens: "\n", the "- " that opens a game's line, and the words between.  *)

MAX_GAMES_STANDARD_TWEET == 5

(* text.split(separator): the stretches between consecutive separators. *)
split(text, separator) ==
    LET at == {i \in 1..Len(text) : text[i] = separator}
        nth(k) == IF k = 0 THEN 0
                  ELSE IF k > Cardinality(at) THEN Len(text) + 1
                  ELSE CHOOSE i \in at : Cardinality({j \in at : j <= i}) = k
    IN  [k \in 1..(Cardinality(at) + 1) |-> SubSeq(text, nth(k - 1) + 1, nth(k) - 1)]

RECURSIVE join(_, _)
join(lines, separator) ==
    IF lines = <<>> THEN <<>>
    ELSE IF Len(lines) = 1 THEN lines[1]
    ELSE lines[1] \o <<separator>> \o join(Tail(lines), separator)

startsWith(line, prefix) == line # <<>> /\ Head(line) = prefix

(* Object.entries(timeGroups): the keys are integers, so they come in       *)
(* ascending order.                                                         *)
RECURSIVE timeGroupEntries(_)
timeGroupEntries(keys) ==
    IF keys = {} THEN <<>>
    ELSE LET first == CHOOSE k \in keys : \A other \in keys : k <= other
         IN  <<first>> \o timeGroupEntries(keys \ {first})

RECURSIVE gameLines(_)
gameLines(groupEvents) ==
    IF groupEvents = <<>> THEN <<>>
    ELSE <<"- ", ToString(Head(groupEvents)), "\n">> \o gameLines(Tail(groupEvents))

RECURSIVE groupLines(_, _)
groupLines(events, entries) ==
    IF entries = <<>> THEN <<>>
    ELSE <<ToString(Head(entries)), "\n">>
         \o gameLines(SelectSeq(events, LAMBDA e : e = Head(entries)))
         \o (IF Len(entries) > 1 THEN <<"\n">> ELSE <<>>)
         \o groupLines(events, Tail(entries))

(* The text getGames writes for the sorted events of a league. *)
output(events) ==
    <<"randomTitle", "\n", "\n">>
    \o groupLines(events, timeGroupEntries({events[i] : i \in 1..Len(events)}))

(* The index (from 0) of the line at which gameCount exceeds the maximum,   *)
(* or -1.                                                                   *)
cutoffIndex(lines) ==
    LET gameCount(i) == Cardinality({j \in 1..i : startsWith(lines[j], "- ")})
        over == {i \in 1..Len(lines) :
                    startsWith(lines[i], "- ") /\ gameCount(i) > MAX_GAMES_STANDARD_TWEET}
    IN  IF over = {} THEN -1
        ELSE (CHOOSE i \in over : \A other \in over : i <= other) - 1

moreGames(count) ==
    <<"\n", "+", ToString(count), " more games. Check our website for the full schedule!">>

(* Mutant: the line at which gameCount reaches the maximum is the cut. *)
formatTweetText_cutsAtMax(data) ==
    IF ~env.SUPPORTS_NOTETWEET /\ Len(data.games) > MAX_GAMES_STANDARD_TWEET
    THEN LET lines == split(data.text, "\n")
             gameCount(i) == Cardinality({j \in 1..i : startsWith(lines[j], "- ")})
             at == {i \in 1..Len(lines) :
                       startsWith(lines[i], "- ") /\ gameCount(i) >= MAX_GAMES_STANDARD_TWEET}
             cut == (CHOOSE i \in at : \A other \in at : i <= other) - 1
         IN  join(Append(SubSeq(lines, 1, cut),
                         moreGames(Len(data.games) - MAX_GAMES_STANDARD_TWEET)), "\n")
    ELSE data.text

formatTweetText(data) ==
    IF ~env.SUPPORTS_NOTETWEET /\ Len(data.games) > MAX_GAMES_STANDARD_TWEET
    THEN LET lines == split(data.text, "\n")
             cut == cutoffIndex(lines)
         IN  IF cut > 0
             THEN join(Append(SubSeq(lines, 1, cut),
                              moreGames(Len(data.games) - MAX_GAMES_STANDARD_TWEET)), "\n")
             ELSE data.text
    ELSE data.text

----------------------------------------------------------------------------
(* One call of safeAPICall or of formatTweetText, followed on its own. *)

RetryDelays == {1000, 2000}

(* The startsAt of the games of a formatted TweetData, few enough to share. *)
FormatTimes == 1..3

FormatData ==
    { [games |-> sortByStartsAt(events), text |-> output(sortByStartsAt(events))] :
        events \in SeqsUpTo(FormatTimes, MaxFormatGames) }

CallChoices ==
    { safeAPICall(maxRetries, retryDelay, throwOnError) :
        maxRetries \in (-1)..MaxRetries, retryDelay \in RetryDelays,
        throwOnError \in BOOLEAN }
    \cup { [op |-> "formatTweetText", data |-> data, pc |-> "called", result |-> <<>>] :
             data \in FormatData }

CallInit ==
    /\ now = InitialHour * HourMs
    /\ env \in {e \in EnvChoices :
                    /\ ~e.RUN_ON_START /\ ~e.POST_ON_START /\ ~e.TWITTER_DRY_RUN
                    /\ e.TZ = "UTC" /\ Deployed(e)}
    /\ lifecycle = "idle"
    /\ startCalls = 0
    /\ leagueSchedules = [l \in Leagues |-> NoHandle]
    /\ timers = {}
    /\ fetches = {}
    /\ batches = 0
    /\ degraded = FALSE
    /\ tweetData = {}
    /\ posts = {}
    /\ tweetSeq = 0
    /\ call \in CallChoices

AttemptCompletes(outcome) ==
    /\ call.op = "safeAPICall" /\ call.pc = "fetch"
    /\ call' = afterAttempt(call, outcome)
    /\ UNCHANGED <<now, env, lifecycle, startCalls, leagueSchedules, timers, fetches,
                   batches, degraded, tweetData, posts, tweetSeq>>

RetryDelayFires ==
    /\ call.op = "safeAPICall" /\ call.pc = "delay"
    /\ call' = afterRetryDelay(call)
    /\ UNCHANGED <<now, env, lifecycle, startCalls, leagueSchedules, timers, fetches,
                   batches, degraded, tweetData, posts, tweetSeq>>

FormatReturns ==
    /\ call.op = "formatTweetText" /\ call.pc = "called"
    /\ call' = [call EXCEPT !.pc = "returned", !.result = formatTweetText(call.data)]
    /\ UNCHANGED <<now, env, lifecycle, startCalls, leagueSchedules, timers, fetches,
                   batches, degraded, tweetData, posts, tweetSeq>>

CallNext ==
    \/ \E outcome \in AttemptOutcomes : AttemptCompletes(outcome)
    \/ RetryDelayFires
    \/ FormatReturns

(* Every await of safeAPICall resolves: fetch and response.json() settle,   *)
(* and the timer of the delay fires.                                        *)
CallSpec ==
    /\ CallInit /\ [][CallNext]_vars
    /\ WF_vars(\E outcome \in AttemptOutcomes : AttemptCompletes(outcome))
    /\ WF_vars(RetryDelayFires)

----------------------------------------------------------------------------
(* Properties *)

Running == lifecycle = "running"

Stopped == lifecycle \in {"stopped", "stopped again"}

earliest(events) ==
    CHOOSE s \in {events[i] : i \in 1..Len(events)} : \A j \in 1..Len(events) : s <= events[j]

(* The timers an action arms. *)
Armed == timers' \ timers

C2_StartArmsOneTimerPerLeague ==
    [][ (Start /\ ~env.RUN_ON_START /\ ~env.POST_ON_START) =>
            /\ DOMAIN leagueSchedules' = DOMAIN LEAGUE_FETCH_TIMES \cap Leagues
            /\ \A l \in Leagues :
                  LET armed == {t \in Armed : t.league = l}
                  IN  /\ Cardinality(armed) = 1
                      /\ \A t \in armed : Handle(t) = leagueSchedules'[l]
                      /\ leagueSchedules'[l] # NoHandle
                      /\ LiveTimers(l) = {} => LiveTimers(l)' = armed
      ]_vars

C2_Witness ==
    /\ Running /\ startCalls = 1
    /\ ~env.RUN_ON_START /\ ~env.POST_ON_START
    /\ fetches = {} /\ posts = {}
    /\ \A l \in Leagues :
          /\ Cardinality(LiveTimers(l)) = 1
          /\ \A t \in LiveTimers(l) : t.kind = "first" /\ Handle(t) = leagueSchedules[l]

\* C3: after stop() returns, no timer armed by the engine remains armed, whatever
\* state each league is in: the first-fetch timeouts, the daily timers and the
\* pending publish timers are all cancelled.
C3_StopLeavesNoTimer ==
    [][ Stop => \A l \in Leagues : LiveTimers(l)' = {} ]_vars

\* C4: once stop() has been called, no fetch or publish timer fires and none is
\* armed: a cycle that was awaiting the EventSource when stop() ran leaves no
\* publish timer behind, and no timer starts a fetch or a publish after stop().
C4_NoTimerAfterStop ==
    [][ (Stopped /\ Stopped') =>
            /\ ~ \E t \in timers :
                    FirstFetchFires(t) \/ DailyFetchFires(t) \/ PublishFires(t)
            /\ \A l \in Leagues : LiveTimers(l)' \subseteq LiveTimers(l)
      ]_vars

\* C5: stop() is idempotent: on an engine that is not running (stopped, or never
\* started) it changes neither the registry nor any timer nor any cycle, and after
\* any stop() the registry is empty and names no armed timer, so that a second
\* stop() finds nothing to cancel.
C5_StopIdempotent ==
    [][ Stop =>
            /\ ~Running =>
                  UNCHANGED <<call, now, env, startCalls, leagueSchedules, timers, fetches,
                              batches, degraded, tweetData, posts, tweetSeq>>
            /\ leagueSchedules' = [l \in Leagues |-> NoHandle]
            /\ cancelled(timers', leagueSchedules') = {}
      ]_vars

C5_Witness == lifecycle = "stopped again" /\ startCalls = 1 /\ timers # {}

\* C6: when a fetch returns a batch whose earliest event starts at T, the cycle
\* arms exactly one publish timer, for T minus one hour, if that instant is
\* strictly in the future; otherwise it arms none, and a daily cycle publishes
\* nothing. The league's daily timer is left as it was.
C6_PublishTimerAtLead ==
    [][ \A f \in fetches, image \in BOOLEAN :
          \A events \in EventBatches(f.startTime) \ {<<>>} :
            (FetchCompletes(f, "ok", events, image)
                /\ (f.origin = "daily" \/ env.RUN_ON_START)) =>
                LET T == earliest(events) * SecMs
                IN  /\ T - LeadMs > now =>
                          Armed = {Timer("publish", f.league, batches + 1, T - LeadMs)}
                    /\ T - LeadMs <= now => Armed = {}
                    /\ f.origin = "daily" => posts' = posts
                    /\ DailyTimers(f.league)' = DailyTimers(f.league)
                    /\ leagueSchedules' = leagueSchedules
      ]_vars

C6_Witness ==
    \E t \in timers :
        /\ t.kind = "publish"
        /\ Len(TweetOf(t.tag).games) = 2
        /\ TweetOf(t.tag).games[1] < TweetOf(t.tag).games[2]
        /\ t.due = TweetOf(t.tag).games[1] * SecMs - LeadMs

\* C7: when a daily fetch returns an empty batch the cycle arms no timer and
\* publishes nothing, and for as long as the engine runs the league's daily timer
\* is armed while the cycle is under way and after it.
C7_EmptyBatchKeepsDailyTimer ==
    /\ [](Running => \A f \in fetches :
              f.origin = "daily" => Cardinality(DailyTimers(f.league)) = 1)
    /\ [][ \A f \in fetches :
             (f.origin = "daily" /\ FetchCompletes(f, "ok", <<>>, FALSE)) =>
                 /\ Armed = {}
                 /\ posts' = posts
                 /\ DailyTimers(f.league)' = DailyTimers(f.league)
                 /\ Running => Cardinality(DailyTimers(f.league)') = 1
         ]_vars

C7_Witness ==
    /\ Running /\ fetches = {} /\ batches = 0 /\ ~degraded /\ posts = {}
    /\ \E t \in timers : t.kind = "daily" /\ t.due = now + DayMs
    /\ \A t \in timers : t.kind # "publish"

\* C8: when the EventSource fails (every HTTP attempt fails, or the body is
\* unusable) the cycle does exactly what it does for an empty batch: it arms no
\* publish timer, publishes nothing, and leaves the league's daily timer armed.
C8_FailureIsEmptyBatch ==
    [][ \A f \in fetches, outcome \in FetchOutcomes \ {"ok"} :
            FetchCompletes(f, outcome, <<>>, FALSE) =>
                /\ tweetData' = tweetData /\ batches' = batches
                /\ Armed = {} /\ timers' = timers
                /\ posts' = posts
                /\ leagueSchedules' = leagueSchedules
                /\ (Running /\ f.origin = "daily") =>
                        Cardinality(DailyTimers(f.league)') = 1
      ]_vars

C8_Witness ==
    /\ Running /\ fetches = {} /\ degraded /\ batches = 0 /\ posts = {}
    /\ \E t \in timers : t.kind = "daily" /\ t.due = now + DayMs
    /\ \A t \in timers : t.kind # "publish"

\* C9: in postLeagueTweet, if the main post fails (media preparation throws before
\* it, or the call or the reading of its result throws), the reply call is never
\* made in that invocation.
C9_NoReplyAfterFailedMain ==
    \A p \in posts : p.failedAt \in {"media", "main"} => p.replyCalls = 0 /\ p.pc = "done"

C9_Witness ==
    \E p \in posts : p.failedAt = "main" /\ p.mainCalls = 1 /\ p.replyCalls = 0

\* C10: within one invocation of postLeagueTweet the Publisher is called at most
\* once for the main post and at most once for the reply, whatever fails: a failed
\* main post is not sent again, and a failed reply leaves the main post sent once.
C10_AtMostOncePerRole ==
    \A p \in posts :
        /\ p.mainCalls <= 1 /\ p.replyCalls <= 1
        /\ p.failedAt = "main" => p.mainCalls = 1
        /\ p.failedAt = "reply" => p.mainCalls = 1 /\ p.replyCalls = 1

C10_Witness ==
    \E p \in posts :
        p.pc = "done" /\ p.failedAt = "reply" /\ p.mainCalls = 1 /\ p.replyCalls = 1

\* C11: no failure of the Publisher leaves postLeagueTweet: at whichever await the
\* failure happens (attachment loading, the main post or the reading of its
\* result, the reply or the reading of its result) the invocation ends resolved,
\* and the step of the failure changes no timer, no registry entry, no pending
\* fetch and not the engine's lifecycle.
C11_FailureStaysInCycle ==
    /\ [](\A p \in posts :
              /\ p.pc \in {"media", "main", "delay", "reply", "done"}
              /\ p.failedAt \in {"none", "media", "main", "reply"}
              /\ p.failedAt # "none" => p.pc = "done")
    /\ [][ \A p \in posts :
             (p.failedAt = "none" /\ \E q \in posts' : q.id = p.id /\ q.failedAt # "none") =>
                 /\ timers' = timers
                 /\ leagueSchedules' = leagueSchedules
                 /\ fetches' = fetches
                 /\ lifecycle' = lifecycle
         ]_vars

C11_Witness ==
    /\ Running
    /\ \E p \in posts : p.failedAt = "media" /\ p.pc = "done" /\ p.mainCalls = 0
    /\ \E p \in posts : p.failedAt = "main" /\ p.pc = "done"
    /\ \A l \in Leagues : Cardinality(DailyTimers(l)) = 1

\* C12: in every invocation of postLeagueTweet the reply is sent only after the
\* main post was made, did not fail and gave a post identifier, and only when the
\* inter-post delay of THREAD_DELAY_MS, counted from the main post's result, has
\* elapsed; the reply's target is that identifier.
C12_ReplyAfterMainAndDelay ==
    /\ [](\A p \in posts :
              p.replyCalls > 0 =>
                  /\ p.mainCalls = 1 /\ p.failedAt # "main"
                  /\ p.firstTweetId # NoId
                  /\ p.replyTo = p.firstTweetId)
    /\ [][ \A p \in posts :
             /\ (p.pc = "main" /\ \E q \in posts' : q.id = p.id /\ q.pc = "delay") =>
                    Armed = {Timer("thread", p.league, p.id, now + THREAD_DELAY_MS)}
             /\ (\E q \in posts' : q.id = p.id /\ q.replyCalls = p.replyCalls + 1) =>
                    /\ p.pc = "delay"
                    /\ \E t \in timers \ timers' :
                          t.kind = "thread" /\ t.tag = p.id /\ t.due <= now
         ]_vars

(* The occurrences of hour:minute on the wall clock of `zone` that can be   *)
(* called the next one at t: today's if t is before it, tomorrow's if t is  *)
(* after it, either of the two at the very instant of today's.              *)
nextOccurrence(zone, t, hour, minute) ==
    LET wall == toWall(zone, t)
        midnight == wall - (wall % DayMs)
        today == fromWall(zone, midnight + hour * HourMs + minute * MinuteMs)
        tomorrow == fromWall(zone, midnight + DayMs + hour * HourMs + minute * MinuteMs)
    IN  IF t < today THEN {today}
        ELSE IF t = today THEN {today, tomorrow}
        ELSE {tomorrow}

\* C13: whatever the host's time zone, the daily fetch timer that start() arms for
\* a league is due at the next occurrence of the league's fetchHour:fetchMinute on
\* the wall clock of the league's configured timeZone: today's if it has not
\* passed in that zone, otherwise tomorrow's.
C13_DelayLandsInConfiguredZone ==
    [][ Start =>
            \A t \in Armed :
                t.kind = "first" =>
                    LET config == LEAGUE_FETCH_TIMES[t.league]
                    IN  t.due \in nextOccurrence(config.timeZone, now,
                                                 config.fetchHour, config.fetchMinute)
      ]_vars

\* C14: the delay of the daily fetch timer that start() arms is strictly positive
\* at every instant: at the very instant of the league's hour:minute the target is
\* tomorrow's occurrence, so that the timer is never due at once.
C14_DelayStrictlyPositive ==
    [][ Start =>
            \A t \in Armed :
                t.kind = "first" =>
                    LET config == LEAGUE_FETCH_TIMES[t.league]
                    IN  /\ t.due - now > 0
                        /\ now = setHours(now, config.fetchHour, config.fetchMinute) =>
                               t.due = setDate(now, 1)
      ]_vars

\* C15: every daily fetch trigger of a league after the first is armed for the
\* next occurrence of the league's hour:minute on the host's clock, computed when
\* it is armed and not a fixed 24 hours ahead: across a local day of 23 hours the
\* next trigger is still due at the configured hour:minute.
C15_DailyTriggerRecomputed ==
    [][ \A t \in timers :
            (FirstFetchFires(t) \/ DailyFetchFires(t)) =>
                \A a \in Armed :
                    a.kind \in DailyKinds =>
                        LET config == LEAGUE_FETCH_TIMES[a.league]
                        IN  /\ a.league = t.league
                            /\ a.due \in nextOccurrence(env.TZ, now,
                                                        config.fetchHour, config.fetchMinute)
                            /\ a.due > now
      ]_vars

(* A cycle of league l completes in a step: its fetch resolves without      *)
(* arming a publish timer and without beginning a post, or one of its       *)
(* postLeagueTweet invocations ends.                                        *)
CycleCompletes(l) ==
    \/ /\ \E f \in fetches \ fetches' : f.league = l
       /\ Armed = {}
       /\ posts' = posts
    \/ \E p \in posts :
          /\ p.league = l /\ p.pc # "done"
          /\ \E q \in posts' : q.id = p.id /\ q.pc = "done"

\* C16: while the engine runs, after every completed cycle of a league (a fetch
\* with no events, with events too soon, or failed; a publish ended in success or
\* in failure) exactly one daily fetch timer is armed for the league, and it is
\* the one the registry holds: daily timers are replaced, never accumulated and
\* never missing, from one daily cycle to the next.
C16_OneDailyTimerAfterCycle ==
    [][ \A l \in Leagues :
            /\ (CycleCompletes(l) /\ Running) =>
                   /\ Cardinality(DailyTimers(l)') = 1
                   /\ DailyTimers(l)' = Registered(l)'
            /\ \A t \in timers :
                   (DailyFetchFires(t) /\ t.league = l /\ Running) =>
                       /\ Cardinality(DailyTimers(l)') = 1
                       /\ DailyTimers(l)' \cap DailyTimers(l) = {}
      ]_vars

C16_Witness ==
    /\ Running
    /\ \E l \in Leagues :
          /\ fetches = {}
          /\ \E p \in posts : p.league = l /\ p.via = "timer" /\ p.pc = "done"
          /\ \A t \in DailyTimers(l) : t.kind = "daily" /\ t.due > 2 * DayMs
          /\ Cardinality(DailyTimers(l)) = 1

(* A step in which a cycle of league a fails: its getGames call fails, or   *)
(* one of its postLeagueTweet invocations catches a throw.                  *)
CycleFails(a) ==
    \/ \E f \in fetches, outcome \in FetchOutcomes \ {"ok"} :
          f.league = a /\ FetchCompletes(f, outcome, <<>>, FALSE)
    \/ \E p \in posts :
          /\ p.league = a /\ p.failedAt = "none"
          /\ \E q \in posts' : q.id = p.id /\ q.failedAt # "none"

\* C17: leagues are independent: a step in which a fetch or a publish of league A
\* fails leaves every other league B as it was (B's timers and their instants,
\* B's registry entry, B's pending fetches and B's postLeagueTweet invocations)
\* and leaves the engine's lifecycle as it was.
C17_LeaguesIndependent ==
    [][ \A a \in Leagues :
            CycleFails(a) =>
                /\ lifecycle' = lifecycle
                /\ \A b \in Leagues \ {a} :
                      /\ {t \in timers' : t.league = b} = {t \in timers : t.league = b}
                      /\ leagueSchedules'[b] = leagueSchedules[b]
                      /\ {f \in fetches' : f.league = b} = {f \in fetches : f.league = b}
                      /\ {p \in posts' : p.league = b} = {p \in posts : p.league = b}
      ]_vars

C17_Witness ==
    /\ Running /\ startCalls = 1
    /\ degraded /\ batches = 1 /\ fetches = {}
    /\ \A l \in Leagues : \A t \in DailyTimers(l) : t.kind = "first"
    /\ \E p \in posts :
          p.via = "startup" /\ p.pc = "done" /\ p.failedAt = "none" /\ p.replyCalls = 1

(* A success result of the dry run: a value with ok and json() whose body   *)
(* holds a result with a stand-in rest_id.                                  *)
DryRunSuccess(result) ==
    /\ ~result.threw /\ result.wrapped
    /\ result.shape \in {"create_tweet", "notetweet_create"}
    /\ result.restId # NoId
    /\ result.restId[1] \in {"dry-run-", "dry-run-notetweet-"}

\* C18: in dry-run mode no call of sendTweet or sendNoteTweet, in any sequence of
\* main posts and replies, authenticates or reaches the scraper's send
\* operations, the platform accepts no post, and each call returns a success
\* result, whatever the platform would have answered.
C18_DryRunHasNoSideEffect ==
    [][ env.TWITTER_DRY_RUN =>
            \A p \in posts, outcome \in SendOutcomes :
                /\ MainPostCompletes(p, outcome) =>
                       /\ scraperCalls(env.TWITTER_DRY_RUN, outcome) = {}
                       /\ DryRunSuccess(mainSend(env, outcome, now, tweetSeq + 1))
                       /\ tweetSeq' = tweetSeq
                /\ ReplyCompletes(p, outcome) =>
                       /\ scraperCalls(env.TWITTER_DRY_RUN, outcome) = {}
                       /\ DryRunSuccess(sendTweet(env.TWITTER_DRY_RUN, outcome, now, tweetSeq + 1))
                       /\ tweetSeq' = tweetSeq
      ]_vars

C18_Witness ==
    /\ env.TWITTER_DRY_RUN /\ ~env.SUPPORTS_NOTETWEET /\ tweetSeq = 0
    /\ \E p \in posts :
          /\ p.pc = "done" /\ p.mainCalls = 1 /\ p.replyCalls = 1 /\ p.failedAt = "none"
          /\ p.firstTweetId[1] = "dry-run-"

(* The environment with the Publisher live. *)
liveEnv == [env EXCEPT !.TWITTER_DRY_RUN = FALSE]

\* C19: in dry-run mode the engine makes the transitions it makes in live mode
\* with a succeeding Publisher, for either setting of SUPPORTS_NOTETWEET: the
\* main post gives an identifier and the invocation goes on to the inter-post
\* delay, arming the same timer; the reply then ends the invocation in the same
\* way; only the identifier itself may differ.
C19_DryRunSameTransitions ==
    [][ env.TWITTER_DRY_RUN =>
            \A p \in posts, outcome \in SendOutcomes :
                /\ MainPostCompletes(p, outcome) =>
                       LET live == afterMain(p, env.SUPPORTS_NOTETWEET,
                                             mainSend(liveEnv, "ok", now, tweetSeq + 1))
                       IN  /\ live.pc = "delay"
                           /\ \E q \in posts' :
                                 /\ q.id = p.id /\ q.firstTweetId # NoId
                                 /\ q = [live EXCEPT !.firstTweetId = q.firstTweetId]
                           /\ Armed = {Timer("thread", p.league, p.id, now + THREAD_DELAY_MS)}
                /\ ReplyCompletes(p, outcome) =>
                       afterReply(p, sendTweet(FALSE, "ok", now, tweetSeq + 1)) \in posts'
      ]_vars

\* C20: in dry-run mode the stand-in result of sendTweet is deterministic: two
\* main posts of the same TweetData (the same content, no reply target) are given
\* the same post identifier, whatever the instants at which they are made.
C20_DryRunDeterministic ==
    env.TWITTER_DRY_RUN =>
        \A p, q \in posts :
            (p.data = q.data /\ p.firstTweetId # NoId /\ q.firstTweetId # NoId) =>
                p.firstTweetId = q.firstTweetId

----------------------------------------------------------------------------
(* Configuration and authentication, under BootSpec *)

missingSetting(e) ==
    \E i \in 1..Len(requiredSettings) : e[requiredSettings[i]] \in {"undefined", ""}

\* C21: when a required setting (TWITTER_COOKIES_AUTH_TOKEN, TWITTER_COOKIES_CT0,
\* TWITTER_COOKIES_GUEST_ID, TWITTER_USERNAME) is unset or empty, constructing the
\* engine throws and ends the process: start() is never called, no timer is armed,
\* no fetch begun, the registry stays empty; the engine never runs on such settings.
C21_MissingSettingIsFatal ==
    /\ [](missingSetting(env) =>
            /\ lifecycle \in {"unconstructed", "crashed"}
            /\ startCalls = 0
            /\ timers = {} /\ fetches = {} /\ posts = {}
            /\ \A l \in Leagues : leagueSchedules[l] = NoHandle)
    /\ [][Construct => (lifecycle' = "crashed" <=> missingSetting(env))]_vars

C21_Witness ==
    /\ lifecycle = "crashed"
    /\ env.TWITTER_USERNAME = ""
    /\ env.TWITTER_COOKIES_AUTH_TOKEN = "set" /\ env.TWITTER_COOKIES_CT0 = "set"
    /\ env.TWITTER_COOKIES_GUEST_ID = "set"

\* C22: with a malformed time-zone identifier in the fetch configuration, start()
\* does not complete and arms no timer for any league.
C22_MalformedZoneStopsStart ==
    env.timeZone \notin Zones => (lifecycle # "running" /\ timers = {})

\* C27: every live send asks for a session by cookies first; when that gives none
\* and TWITTER_PASSWORD is configured, login with username and password is tried
\* next; the send throws exactly when neither gives a session, and then nothing
\* is posted.
C27_CredentialFallback ==
    [][\A p \in posts, cookieSession \in AuthAnswers, loginSession \in AuthAnswers,
          answer \in SendOutcomes :
          ( /\ ~env.TWITTER_DRY_RUN
            /\ \/ MainPostCompletes(p, sendVia(twitterClient(env), cookieSession,
                                               loginSession, answer))
               \/ ReplyCompletes(p, sendVia(twitterClient(env), cookieSession,
                                            loginSession, answer)) )
          => LET s == getLoggedInScraper(twitterClient(env), cookieSession, loginSession)
             IN  /\ s.attempts[1] = "cookies"
                 /\ (cookieSession # "logged_in" /\ env.TWITTER_PASSWORD = "set")
                       => s.attempts = <<"cookies", "login">>
                 /\ s.threw <=> ( /\ cookieSession # "logged_in"
                                  /\ ~(env.TWITTER_PASSWORD = "set"
                                         /\ loginSession = "logged_in") )
                 /\ s.threw => tweetSeq' = tweetSeq]_vars

----------------------------------------------------------------------------
(* The immediate pass of start() *)

AllBatches(startTime) == EventBatches(startTime) \cup {<<>>}

\* C23: the immediate pass of start() leaves the daily timers alone: start() arms
\* for every league the one timer, at the instant and under the registry entry that
\* do not depend on RUN_ON_START or POST_ON_START, and no completion of a startup
\* fetch, whatever it returns or however it fails, and no step of a post begun by
\* the immediate pass changes a daily timer or the registry.
C23_StartupPassLeavesDailyTimers ==
    [][ /\ Start =>
              \A l \in Leagues :
                  LET first == Timer("first", l, startCalls + 1,
                                     now + timeUntilNextFetch(now, LEAGUE_FETCH_TIMES[l]))
                  IN  DailyTimers(l)' = {first} /\ leagueSchedules'[l] = Handle(first)
        /\ \A f \in fetches, outcome \in FetchOutcomes, image \in BOOLEAN :
              \A events \in AllBatches(f.startTime) :
                  (f.origin = "startup" /\ FetchCompletes(f, outcome, events, image))
                  => /\ leagueSchedules' = leagueSchedules
                     /\ \A l \in Leagues : DailyTimers(l)' = DailyTimers(l)
        /\ \A p \in posts :
              ( /\ p.via = "startup"
                /\ \/ \E ok \in BOOLEAN : MediaCompletes(p, ok)
                   \/ \E outcome \in SendOutcomes : MainPostCompletes(p, outcome)
                   \/ \E t \in timers : t.tag = p.id /\ ThreadDelayFires(t)
                   \/ \E outcome \in SendOutcomes : ReplyCompletes(p, outcome) )
              => /\ leagueSchedules' = leagueSchedules
                 /\ \A l \in Leagues : DailyTimers(l)' = DailyTimers(l) ]_vars

C23_Witness ==
    /\ env.RUN_ON_START /\ env.POST_ON_START
    /\ Running /\ fetches = {} /\ degraded
    /\ \E p \in posts : p.via = "startup" /\ p.pc = "done" /\ p.replyCalls = 1
    /\ \E t \in timers : t.kind = "publish"
    /\ \A l \in Leagues :
          DailyTimers(l) = {Timer("first", l, 1,
                                  targetTime(InitialHour * HourMs, LEAGUE_FETCH_TIMES[l]))}

BuiltFrom(l) == {d \in tweetData : d.leagueId = leagues[l].leagueId /\ Len(d.games) > 0}

\* C25: the engine posts only when there are games: every postLeagueTweet invocation
\* and every armed publish timer of a league carries a TweetData that a fetch for
\* that league built from a non-empty batch of that league's games; a TweetData comes
\* only of a fetch that answered events; and a fetch that fails or answers no events
\* begins no post and arms no timer.
C25_PostsOnlyWithGames ==
    /\ [](/\ \A p \in posts : \E d \in BuiltFrom(p.league) : d.id = p.data
          /\ \A t \in timers : t.kind = "publish" => \E d \in BuiltFrom(t.league) : d.id = t.tag)
    /\ [][ \A f \in fetches, outcome \in FetchOutcomes, image \in BOOLEAN :
             \A events \in AllBatches(f.startTime) :
                 FetchCompletes(f, outcome, events, image) =>
                     /\ (outcome # "ok" \/ events = <<>>) =>
                            (posts' = posts /\ Armed = {} /\ tweetData' = tweetData)
                     /\ \A d \in tweetData' \ tweetData :
                            /\ outcome = "ok" /\ events # <<>>
                            /\ d.leagueId = leagues[f.league].leagueId
                            /\ d.games = sortByStartsAt(events) ]_vars

C25_Witness ==
    /\ degraded
    /\ \E p \in posts :
          /\ p.via = "timer" /\ p.mainCalls = 1 /\ p.pc = "done"
          /\ Len(TweetOf(p.data).games) = MaxGames

StartupFetchesOf(l, gen, fs) ==
    {f \in fs : f.league = l /\ f.origin = "startup" /\ f.gen = gen}

StartupPostsOf(l) == {p \in posts : p.league = l /\ p.via = "startup"}

C28_GetGamesNeverThrows ==
    [][ \A f \in fetches, outcome \in FetchOutcomes, image \in BOOLEAN :
          \A events \in AllBatches(f.startTime) :
              FetchCompletes(f, outcome, events, image) =>
                  LET tweets == getGames(leagues[f.league].leagueId, outcome, events,
                                         image, batches + 1)
                  IN  /\ fetches' = fetches \ {f}
                      /\ lifecycle' = lifecycle
                      /\ Len(tweets) \in {0, 1}
                      /\ (outcome # "ok" \/ events = <<>>) => tweets = <<>>
                      /\ tweetData' = tweetData \cup {tweets[i] : i \in 1..Len(tweets)}
                      /\ getGames("0_Nowhere_None", outcome, events, image, batches + 1)
                            = <<>> ]_vars

C28_Witness ==
    /\ Running /\ fetches = {} /\ degraded /\ batches = 1
    /\ \E d \in tweetData : Len(d.games) = MaxGames
    /\ posts = {}

----------------------------------------------------------------------------
(* Liveness, under LiveSpec *)

Horizon == (InitialHour + HorizonHours) * HourMs

(* The d-th daily trigger of league l after a start() on the first day, on  *)
(* the UTC host.                                                            *)
trigger(l, d) ==
    LEAGUE_FETCH_TIMES[l].fetchHour * HourMs
        + LEAGUE_FETCH_TIMES[l].fetchMinute * MinuteMs + d * DayMs

FetchBegun(l, instant) ==
    \E f \in fetches : f.league = l /\ f.origin = "daily" /\ f.startTime = round(instant)

TriggerAhead(l, d) == Running /\ now < trigger(l, d) /\ trigger(l, d) <= Horizon

\* C29: after start(), as long as stop() is not called, the fetch of every
\* configured league is triggered again at every daily period: while the engine
\* runs and a league's trigger of a period lies ahead, that trigger's fetch is
\* eventually begun (or stop() is called), whatever earlier fetches and publishes
\* returned or however they failed.
C29_DailyFetchRecurs ==
    \A ld \in Leagues \X (0..(LivePeriods - 1)) :
        TriggerAhead(ld[1], ld[2]) ~> (~Running \/ FetchBegun(ld[1], trigger(ld[1], ld[2])))

C29_Witness ==
    /\ Running /\ degraded /\ batches = 1
    /\ \E p \in posts : p.pc = "done" /\ p.failedAt = "main"
    /\ FetchBegun("EPL", trigger("EPL", 1))

EndedCycle(l) == \E p \in posts : p.league = l /\ p.via = "timer" /\ p.pc = "done"

\* C30: every armed publish timer leads to a publish attempt that terminates: the
\* main post is eventually attempted, and the cycle ends having attempted it.
C30_PublishTimerLeadsToMainPost ==
    /\ \A l \in Leagues :
          (\E t \in PublishTimers(l) : t.due + THREAD_DELAY_MS <= Horizon)
              ~> (\E p \in posts : p.league = l /\ p.via = "timer" /\ p.mainCalls >= 1)
    /\ [](\A p \in posts : (p.via = "timer" /\ p.pc = "done") => p.mainCalls >= 1)

\* C30 (amended): every armed publish timer leads to an invocation of postLeagueTweet
\* that ends, whether or not stop() is called meanwhile; the invocation attempts the
\* main post exactly when loading the attachments did not fail; and when it has ended
\* on a running engine the league's daily timer is armed.
C30_PublishTimerLeadsToEndedCycle ==
    /\ \A l \in Leagues :
          (\E t \in PublishTimers(l) : t.due + THREAD_DELAY_MS <= Horizon) ~> EndedCycle(l)
    /\ [](\A p \in posts :
             (p.via = "timer" /\ p.pc = "done") =>
                 /\ p.mainCalls = (IF p.failedAt = "media" THEN 0 ELSE 1)
                 /\ Running => Cardinality(DailyTimers(p.league)) = 1)

C30_Witness ==
    /\ Running
    /\ \E p \in posts :
          /\ p.via = "timer" /\ p.pc = "done" /\ p.failedAt = "media" /\ p.mainCalls = 0
          /\ Cardinality(DailyTimers(p.league)) = 1

----------------------------------------------------------------------------
(* The immediate pass beside the daily cycle, under CatchUpSpec *)

\* C31: the immediate pass and the daily cycle are independent: under RUN_ON_START
\* every fetch of either that returns tweet data hands it to scheduleLeagueTweet,
\* whatever publish timers the league already has, and every publish timer that
\* fires invokes postLeagueTweet, whatever was posted before; so a league fetched by
\* both can hold two publish timers for the same first game and be posted twice.
C31_PassAndCycleBothPublish ==
    [][ /\ \A f \in fetches, image \in BOOLEAN :
              \A events \in EventBatches(f.startTime) \ {<<>>} :
                  getGamesResolves(f, "ok", events, image) =>
                      LET d == [ id |-> batches + 1,
                                 leagueId |-> leagues[f.league].leagueId,
                                 games |-> sortByStartsAt(events),
                                 attachments |-> IF image THEN 1 ELSE 0 ]
                      IN  Armed = scheduleLeagueTweet(f.league, d, now)
        /\ \A t \in timers :
              PublishFires(t) =>
                  posts' \ posts = {postLeagueTweet(Cardinality(posts) + 1, TweetOf(t.tag),
                                                    t.league, "timer")} ]_vars

C31_Witness ==
    \E p \in posts, q \in posts :
        /\ p.league = q.league /\ p.data # q.data
        /\ TweetOf(p.data).games[1] = TweetOf(q.data).games[1]
        /\ p.via = "timer" /\ q.via = "timer"
        /\ p.pc = "done" /\ q.pc = "done"
        /\ p.firstTweetId # NoId /\ q.firstTweetId # NoId
        /\ p.replyCalls = 1 /\ q.replyCalls = 1

----------------------------------------------------------------------------
(* stop() and the daily timers *)

\* C33: after stop() no daily fetch is triggered again for any league until start()
\* is called again: stop() leaves no league with an armed first-fetch timeout or
\* recurring daily timer, whichever the registry held for it, and while the engine
\* stays stopped no daily timer is armed and no fetch begins.
C33_NoDailyFetchAfterStop ==
    [][ /\ Stop => \A l \in Leagues : DailyTimers(l)' = {} /\ leagueSchedules'[l] = NoHandle
        /\ (Stopped /\ lifecycle' # "running") =>
              /\ \A l \in Leagues : DailyTimers(l)' = {}
              /\ fetches' \subseteq fetches
              /\ \A t \in timers : ~FirstFetchFires(t) /\ ~DailyFetchFires(t) ]_vars

C33_Witness ==
    /\ lifecycle = "stopped" /\ startCalls = 1
    /\ now > trigger("EPL", 0)
    /\ batches = 1 /\ degraded /\ fetches = {}
    /\ \A l \in Leagues : DailyTimers(l) = {}

\* C34: after any sequence of start() and stop() calls, start() twice without a
\* stop() between them included, every armed daily fetch timer is the one the
\* registry holds for its league: no daily timer is out of stop()'s reach and no
\* league has two daily timers.
C34_EveryDailyTimerRegistered ==
    \A l \in Leagues :
        /\ \A t \in DailyTimers(l) : Handle(t) = leagueSchedules[l]
        /\ Cardinality(DailyTimers(l)) <= 1

----------------------------------------------------------------------------
(* The query window and the daily period, under WindowSpec *)

\* C35: with both immediate-start flags off a league never has two pending publish
\* timers at once: a publish timer is due less than 17 hours after the fetch that
\* armed it, and when a daily fetch of a league begins, the league has no publish
\* timer pending.
C35_OnePendingPublishTimer ==
    /\ [](\A l \in Leagues : Cardinality(PublishTimers(l)) <= 1)
    /\ [][ /\ \A f \in fetches : \A t \in Armed :
                 (f \notin fetches' /\ t.kind = "publish" /\ t.league = f.league)
                     => t.due < f.startTime * SecMs + (WindowSec * SecMs - LeadMs)
           /\ \A t \in timers :
                 (FirstFetchFires(t) \/ DailyFetchFires(t)) => PublishTimers(t.league) = {} ]_vars

C35_Witness ==
    /\ Running /\ now = trigger("EPL", 1) /\ batches = WindowBatches
    /\ \E d \in tweetData : d.games[1] = (trigger("EPL", 0) \div SecMs) + WindowSec - 1
    /\ \E p \in posts : p.league = "EPL" /\ p.via = "timer" /\ p.pc = "done"
    /\ Cardinality(PublishTimers("EPL")) = 1

----------------------------------------------------------------------------
(* The list getGames answers for one league *)

ascending(games) == \A i \in 1..(Len(games) - 1) : games[i] <= games[i + 1]

occurrences(games, startsAt) == Cardinality({i \in 1..Len(games) : games[i] = startsAt})

\* C36: getGames(leagueId) answers at most one tweet and only for the league asked
\* for: when the league has events, exactly one TweetData whose leagueId is the one
\* asked for and whose games are the events answered, none missing, ascending by
\* startsAt; when it has none, or when the leagueId is no configured league's, no
\* tweet.
C36_OneTweetForRequestedLeague ==
    [][ \A f \in fetches, image \in BOOLEAN :
          \A events \in AllBatches(f.startTime) :
              FetchCompletes(f, "ok", events, image) =>
                  LET leagueId == leagues[f.league].leagueId
                      tweets == getGames(leagueId, "ok", events, image, batches + 1)
                  IN  /\ Len(tweets) <= 1
                      /\ \A i \in 1..Len(tweets) :
                            /\ tweets[i].leagueId = leagueId
                            /\ tweets[i].games # <<>>
                            /\ ascending(tweets[i].games)
                            /\ \A s \in StartsAtChoices(f.startTime) :
                                  occurrences(tweets[i].games, s) = occurrences(events, s)
                      /\ events # <<>> => Len(tweets) = 1
                      /\ events = <<>> => tweets = <<>>
                      /\ tweetData' \ tweetData = {tweets[i] : i \in 1..Len(tweets)}
                      /\ \A d \in tweetData' : d.leagueId = leagueId \/ d \in tweetData
                      /\ getGames("99_Nowhere_None", "ok", events, image, batches + 1) = <<>> ]_vars

C36_Witness ==
    /\ fetches = {} /\ batches = 1 /\ ~degraded
    /\ \E d \in tweetData :
          /\ d.leagueId = leagues["NBA"].leagueId
          /\ Len(d.games) = MaxGames /\ d.games[1] < d.games[MaxGames]
    /\ \A d \in tweetData : d.leagueId = leagues["NBA"].leagueId

----------------------------------------------------------------------------
(* The retry budget and the standard post's limit, under CallSpec *)

Ended == call.pc \in {"returned", "threw"}

\* C32: a call of safeAPICall with maxRetries >= 0 ends within its budget: it makes
\* at most maxRetries + 1 attempts; a successful attempt returns its response and no
\* attempt follows; a delay of retryDelay lies between consecutive attempts and none
\* after the last; and when attempt maxRetries + 1 fails it returns defaultValue if
\* throwOnError is false and throws that attempt's error if it is true.
C32_RetryBudget ==
    /\ []((call.op = "safeAPICall" /\ call.maxRetries >= 0) =>
            /\ call.attempts >= 1 /\ call.attempts <= call.maxRetries + 1
            /\ call.waited = (call.attempts - 1) * call.retryDelay
            /\ call.pc = "threw" =>
                  /\ call.throwOnError /\ call.attempts = call.maxRetries + 1
                  /\ call.lastError.attempt = call.attempts
            /\ call.pc = "returned" =>
                  /\ call.result \in {"response", "default"}
                  /\ call.result = "default" =>
                        ~call.throwOnError /\ call.attempts = call.maxRetries + 1)
    /\ [][ (call.op = "safeAPICall" /\ call.maxRetries >= 0) =>
             /\ AttemptCompletes("ok") =>
                   call'.pc = "returned" /\ call'.result = "response"
             /\ \A outcome \in AttemptOutcomes \ {"ok"} :
                   AttemptCompletes(outcome) =>
                       IF call.attempts = call.maxRetries + 1
                       THEN call'.pc = (IF call.throwOnError THEN "threw" ELSE "returned")
                       ELSE call'.pc = "delay"
             /\ ~Ended
             /\ call'.pc \in {"returned", "threw"} => call.pc = "fetch"
             /\ call'.attempts > call.attempts =>
                   call'.waited = call.waited + call.retryDelay ]_vars
    /\ <>(call.op = "safeAPICall" => Ended)

C32_Witness ==
    /\ call.op = "safeAPICall" /\ call.maxRetries = MaxRetries /\ call.throwOnError
    /\ call.pc = "threw" /\ call.attempts = MaxRetries + 1
    /\ call.waited = MaxRetries * call.retryDelay
    /\ call.lastError = [attempt |-> MaxRetries + 1, kind |-> "status"]

(* The positions of the tokens that open a game's line. *)
gameLineStarts(text) == {i \in 1..Len(text) : text[i] = "- "}

\* C37: formatTweetText limits a standard post to MAX_GAMES_STANDARD_TWEET games: with
\* SUPPORTS_NOTETWEET off and more games than that, the text returned is the original
\* up to the line of the sixth game, that line excluded, followed by a note that
\* states how many games are left out, so that just five lines open with '- ';
\* otherwise the text is returned as it is.
C37_StandardPostLimit ==
    (call.op = "formatTweetText" /\ call.pc = "returned") =>
        LET text == call.data.text
            n == Len(call.data.games)
            starts == gameLineStarts(text)
        IN  /\ Cardinality(starts) = n
            /\ IF ~env.SUPPORTS_NOTETWEET /\ n > MAX_GAMES_STANDARD_TWEET
               THEN LET sixth == CHOOSE i \in starts :
                                    Cardinality({j \in starts : j < i}) = MAX_GAMES_STANDARD_TWEET
                        kept == SubSeq(text, 1, sixth - 1)
                    IN  /\ call.result =
                              kept \o <<"\n", "+", ToString(n - MAX_GAMES_STANDARD_TWEET),
                                        " more games. Check our website for the full schedule!">>
                        /\ Cardinality(gameLineStarts(call.result)) = MAX_GAMES_STANDARD_TWEET
                        /\ Cardinality({i \in 1..Len(split(call.result, "\n")) :
                                           startsWith(split(call.result, "\n")[i], "- ")})
                              = MAX_GAMES_STANDARD_TWEET
               ELSE call.result = text

C37_Witness ==
    /\ call.op = "formatTweetText" /\ call.pc = "returned" /\ ~env.SUPPORTS_NOTETWEET
    /\ Len(call.data.games) = MaxFormatGames
    /\ call.data.games[MAX_GAMES_STANDARD_TWEET] < call.data.games[MAX_GAMES_STANDARD_TWEET + 1]
    /\ call.result # call.data.text
    /\ call.result[Len(call.result) - 1] = ToString(MaxFormatGames - MAX_GAMES_STANDARD_TWEET)

====
